---- MODULE Spec2Model ----
(***************************************************************************)
(* A model of the searchd binary-protocol client of sphinx.go: the query   *)
(* configuration, the request encoder (AddQuery), the batch dispatcher     *)
(* (RunQueries, Query), the connection manager (connect, doRequest, Open,  *)
(* Close) and the response decoder (byteParser).                           *)
(*                                                                         *)
(* Byte strings are sequences of naturals 0..255.  A Go string that goes   *)
(* over the wire is the sequence of its bytes.  A Go error is <<>> for nil *)
(* and <<text, detail>> otherwise.  Integers of the model stay below 2^31. *)
(***************************************************************************)
EXTENDS Integers, Sequences, FiniteSets, TLC

VARIABLES
    opts,       \* the Options object the client points to (Client.Options)
    sc,         \* the client's own fields: conn, warning, err, connerror, filters, reqs ...
    sock,       \* the socket sc.conn refers to (what the peer and the OS know of it)
    ret,        \* what the last operation returned to its caller
    io,         \* the network calls of the last operation, in order
    sent,       \* the frames the last operation wrote to the socket, in order
    replied,    \* the per-query result blocks the daemon put in its last search reply
    added,      \* the successful AddQuery calls since the queue was last emptied: [q, req]
    pending,    \* the length of the queue when the last operation was called
    afterQuery, \* progress of the sequence Query, AddQuery, RunQueries (all successful)
    panicked,   \* a Go panic left an operation (the program is gone)
    args,       \* the arguments of the last call, when it was a call of a setter
    response,   \* the response body the last operation read whole, <<>> if it read none
    envelope,   \* the status in the header of that response, -1 if none was read whole
    race,       \* what two callers of one client hold between the statements of RunQueries
    retried,    \* the length of the queue the last failed search left behind, 0 in a new batch
    peer        \* the own fields of a second client obtained from NewClient()

vars ==
    <<opts, sc, sock, ret, io, sent, replied, added, pending, afterQuery, panicked, args,
      response, envelope, race, retried, peer>>

(********************************* bounds **********************************)
MaxQueue == 2       \* AddQuery is called while the queue is shorter than this
MaxFilters == 1     \* SetFilterRange is called while there are fewer filters than this
MaxAdds == 3        \* two callers of one client call AddQuery this many times in all
MaxLen == 3         \* the texts given to escapeString have at most this many bytes
MaxKept == 2         \* a caller of the three filter setters keeps at most this many filters
MaxWords == 4        \* a MULTI64 attribute of the daemon has at most this many 32-bit words

(**************************** program constants ****************************)
VER_MAJOR_PROTO == 1
VER_COMMAND_SEARCH == 281
VER_COMMAND_EXCERPT == 260
VER_COMMAND_UPDATE == 258
VER_COMMAND_KEYWORDS == 256
VER_COMMAND_STATUS == 256
VER_COMMAND_FLUSHATTRS == 256
SEARCHD_OK == 0
SEARCHD_ERROR == 1
SEARCHD_RETRY == 2
SEARCHD_WARNING == 3
SEARCHD_COMMAND_SEARCH == 0
SEARCHD_COMMAND_EXCERPT == 1
SEARCHD_COMMAND_UPDATE == 2
SEARCHD_COMMAND_KEYWORDS == 3
SEARCHD_COMMAND_PERSIST == 4
SEARCHD_COMMAND_STATUS == 5
SEARCHD_COMMAND_FLUSHATTRS == 7
SPH_MATCH_EXTENDED == 4
SPH_MATCH_EXTENDED2 == 6
SPH_RANK_PROXIMITY_BM25 == 0
SPH_RANK_EXPR == 8
SPH_RANK_TOTAL == 9
SPH_SORT_RELEVANCE == 0
SPH_SORT_ATTR_DESC == 1
SPH_SORT_EXPR == 5
SPH_GROUPBY_DAY == 0
SPH_GROUPBY_ATTR == 4
SPH_GROUPBY_ATTRPAIR == 5
SPH_ATTR_INTEGER == 1
SPH_ATTR_FLOAT == 5
SPH_ATTR_BIGINT == 6
SPH_ATTR_STRING == 7
SPH_ATTR_MULTI == 1073741825
SPH_ATTR_MULTI64 == 1073741826
SPH_FILTER_VALUES == 0
SPH_FILTER_RANGE == 1
SPH_FILTER_FLOATRANGE == 2

NIL == <<>>                     \* a nil error, a nil slice, the empty string
NoConn == "nil"                 \* sc.conn == nil

(******************************* byte helpers ******************************)
\* byte k (0 = lowest) of uint32(i), for i of either sign
ByteOf(i, k) ==
    LET d == IF k = 0 THEN 1 ELSE IF k = 1 THEN 256 ELSE IF k = 2 THEN 65536 ELSE 16777216
    IN  IF i >= 0 THEN (i \div d) % 256 ELSE 255 - ((((0 - i) - 1) \div d) % 256)

writeInt16ToBytes(bs, i) == bs \o <<ByteOf(i, 1), ByteOf(i, 0)>>

writeInt32ToBytes(bs, i) == bs \o <<ByteOf(i, 3), ByteOf(i, 2), ByteOf(i, 1), ByteOf(i, 0)>>

\* the model's 64-bit values stay below 2^31: the upper word is zero
writeInt64ToBytes(bs, ui) == writeInt32ToBytes(bs \o <<0, 0, 0, 0>>, ui)

\* a float32 is kept as its IEEE-754 bit pattern, four bytes, big-endian
writeFloat32ToBytes(bs, f) == bs \o f

writeLenStrToBytes(bs, s) == writeInt32ToBytes(bs, Len(s)) \o s

\* big-endian value of stream[p+1 .. p+n]
RECURSIVE BigEndian(_, _, _)
BigEndian(stream, p, n) ==
    IF n = 0 THEN 0 ELSE 256 * BigEndian(stream, p, n - 1) + stream[p + n]

Slice(s, from, to) == SubSeq(s, from + 1, to)      \* Go's s[from:to]

(****************************** string literals ****************************)
StrStar == <<42>>                                               \* "*"
StrGroupDesc == <<64, 103, 114, 111, 117, 112, 32, 100, 101, 115, 99>>  \* "@group desc"
StrTest == <<116>>                                              \* a query, "t"
StrMy == <<109, 121>>                                           \* a query, "my"
StrIndex == <<116, 49>>                                         \* an index name, "t1"
StrWarn == <<119>>                                              \* a daemon warning text
StrOops == <<111, 104>>                                         \* a daemon error text
F32Zero == <<0, 0, 0, 0>>                                       \* float32 0.0
F32One == <<63, 128, 0, 0>>                                     \* float32 1.0
F32MinusOne == <<191, 128, 0, 0>>                               \* float32 -1.0
F32NaN == <<127, 192, 0, 0>>                                    \* float32 NaN
StrLocalhost == <<108, 111, 99, 97, 108, 104, 111, 115, 116>>   \* "localhost"
StrUnix == <<117, 110, 105, 120, 58, 47, 47>>                   \* "unix://"
StrH == <<104>>                                                 \* "h", a host name
StrSockPath == <<47, 115>>                                      \* "/s", the path of a socket

(************************* the default configuration ***********************)
DefaultOptions ==
    [Host |-> StrLocalhost, Port |-> 9312, Socket |-> NIL,
     RetryCount |-> 0, RetryDelay |-> 0, Timeout |-> 1000,
     Offset |-> 0, Limit |-> 20, MaxMatches |-> 1000, Cutoff |-> 0, MaxQueryTime |-> 0,
     Select |-> StrStar, MatchMode |-> SPH_MATCH_EXTENDED,
     RankMode |-> SPH_RANK_PROXIMITY_BM25, RankExpr |-> NIL,
     SortMode |-> SPH_SORT_RELEVANCE, SortBy |-> NIL,
     MinId |-> 0, MaxId |-> 0,
     LatitudeAttr |-> NIL, LongitudeAttr |-> NIL, Latitude |-> F32Zero, Longitude |-> F32Zero,
     GroupBy |-> NIL, GroupFunc |-> SPH_GROUPBY_DAY, GroupSort |-> StrGroupDesc,
     GroupDistinct |-> NIL, Index |-> NIL, Columns |-> <<>>, Where |-> NIL]

NewClient ==
    [conn |-> NoConn, warning |-> NIL, err |-> NIL, connerror |-> FALSE,
     weights |-> <<>>, filters |-> <<>>, reqs |-> <<>>,
     indexWeights |-> <<>>, fieldWeights |-> <<>>, overrides |-> <<>>, overridesNil |-> TRUE,
     DB |-> FALSE]

\* A socket: how many times the server version was read from it and the client
\* version written to it, the bytes of the client version written, whether the
\* version read was accepted (>= 1), whether a deadline is set, and whether a
\* write or read of a command has failed on it.  NoSock stands for "no socket"
\* (sc.conn == nil).
NoSock == [open |-> FALSE, verRead |-> 0, verWritten |-> 0, hello |-> <<>>, accepted |-> FALSE,
           deadline |-> FALSE, failed |-> FALSE,
           network |-> "", host |-> <<>>, port |-> 0, path |-> <<>>]

FreshSock == [NoSock EXCEPT !.open = TRUE]

\* Two callers of one client, each idle or between two statements of RunQueries:
\*   pc[p]    "idle" | "built" (allReqs is built) | "written" | "read"
\*   snap[p]  the requests p built its allReqs from
\*   got[p]   the response p has read, [to, body]: the caller whose frame it answers
\*   stream   the responses on the socket that nobody has read yet, oldest first
\*   acked    the requests AddQuery has returned a position for
\*   framed   the requests that went out in a frame
Callers == {"A", "B"}

NoRace ==
    [pc |-> [p \in Callers |-> "idle"], snap |-> [p \in Callers |-> <<>>],
     got |-> [p \in Callers |-> [to |-> "", body |-> <<>>]], stream |-> <<>>,
     acked |-> {}, framed |-> {}]

\* a Go error: nil is <<>>, otherwise <<text, detail>> (detail: bytes from the daemon)
Err(text) == <<text, NIL>>
ErrD(text, detail) == <<text, detail>>

(***************************** request encoder *****************************)
RECURSIVE EncodeWeights(_, _)
EncodeWeights(req, ws) ==
    IF ws = <<>> THEN req
    ELSE EncodeWeights(writeInt32ToBytes(req, Head(ws)), Tail(ws))

RECURSIVE EncodeValues(_, _)
EncodeValues(req, vs) ==
    IF vs = <<>> THEN req
    ELSE EncodeValues(writeInt64ToBytes(req, Head(vs)), Tail(vs))

EncodeFilter(req, f) ==
    LET r1 == writeInt32ToBytes(writeLenStrToBytes(req, f.attr), f.filterType)
        r2 == IF f.filterType = SPH_FILTER_VALUES
                THEN EncodeValues(writeInt32ToBytes(r1, Len(f.values)), f.values)
              ELSE IF f.filterType = SPH_FILTER_RANGE
                THEN writeInt64ToBytes(writeInt64ToBytes(r1, f.umin), f.umax)
              ELSE IF f.filterType = SPH_FILTER_FLOATRANGE
                THEN writeFloat32ToBytes(writeFloat32ToBytes(r1, f.fmin), f.fmax)
              ELSE r1
    IN  writeInt32ToBytes(r2, IF f.exclude THEN 1 ELSE 0)

\* the mutant of EncodeFilters: the filter set last is written first
RECURSIVE EncodeFiltersLastFirst(_, _)
EncodeFiltersLastFirst(req, fs) ==
    IF fs = <<>> THEN req
    ELSE EncodeFiltersLastFirst(EncodeFilter(req, fs[Len(fs)]), SubSeq(fs, 1, Len(fs) - 1))

RECURSIVE EncodeFilters(_, _)
EncodeFilters(req, fs) ==
    IF fs = <<>> THEN req ELSE EncodeFilters(EncodeFilter(req, Head(fs)), Tail(fs))

\* a map[string]int walked in the order `kvs` (a sequence of <<name, weight>>)
RECURSIVE EncodeWeightMap(_, _)
EncodeWeightMap(req, kvs) ==
    IF kvs = <<>> THEN req
    ELSE EncodeWeightMap(writeInt32ToBytes(writeLenStrToBytes(req, Head(kvs)[1]), Head(kvs)[2]),
                         Tail(kvs))

\* The loops over the overrides and their values build x = [req, err, panic]:
\* the bytes so far, the error returned, and whether a type assertion panicked.
\* An override value is <<id, v>> with v = [kind, val], kind the Go type of v.
\* one value: the id, then v.(int), v.(float32) or v.(uint64) by the declared
\* type; an assertion of a type the value does not have panics
EncodeOverrideValue(x, attrType, idv) ==
    IF x.panic \/ x.err # NIL THEN x
    ELSE IF attrType \notin {SPH_ATTR_INTEGER, SPH_ATTR_FLOAT, SPH_ATTR_BIGINT}
      THEN [x EXCEPT !.err = Err("AddQuery > attr value is not int/float32/uint64.")]
    ELSE IF idv[2].kind # (IF attrType = SPH_ATTR_INTEGER THEN "int"
                           ELSE IF attrType = SPH_ATTR_FLOAT THEN "float32" ELSE "uint64")
      THEN [x EXCEPT !.panic = TRUE]
    ELSE IF idv[2].kind = "float32"
      THEN [x EXCEPT !.req = writeFloat32ToBytes(writeInt64ToBytes(@, idv[1]), idv[2].val)]
    ELSE IF idv[2].kind = "uint64"
      THEN [x EXCEPT !.req = writeInt64ToBytes(writeInt64ToBytes(@, idv[1]), idv[2].val)]
    ELSE [x EXCEPT !.req = writeInt32ToBytes(writeInt64ToBytes(@, idv[1]), idv[2].val)]

\* a map[uint64]interface{} walked in the order `vals`
RECURSIVE EncodeOverrideValues(_, _, _)
EncodeOverrideValues(x, attrType, vals) ==
    IF vals = <<>> \/ x.panic \/ x.err # NIL THEN x
    ELSE EncodeOverrideValues(EncodeOverrideValue(x, attrType, Head(vals)), attrType, Tail(vals))

\* a map[string]override walked in the order `ovs`
RECURSIVE EncodeOverrides(_, _)
EncodeOverrides(x, ovs) ==
    IF ovs = <<>> \/ x.panic \/ x.err # NIL THEN x
    ELSE EncodeOverrides(
           EncodeOverrideValues(
             [x EXCEPT !.req = writeInt32ToBytes(writeInt32ToBytes(
                                 writeLenStrToBytes(@, Head(ovs).attrName), Head(ovs).attrType),
                                 Len(Head(ovs).values))],
             Head(ovs).attrType, Head(ovs).values),
           Tail(ovs))

\* the section of the request that holds the overrides, after their count
OverrideSection(c) == EncodeOverrides([req |-> <<>>, err |-> NIL, panic |-> FALSE], c.overrides)

\* The bytes AddQuery builds from the configuration (o, c) and its arguments.
EncodeQuery(o, c, query, index, comment) ==
    LET r1  == writeInt32ToBytes(<<>>, o.Offset)
        r2  == writeInt32ToBytes(r1, o.Limit)
        r3  == writeInt32ToBytes(r2, o.MatchMode)
        r4  == writeInt32ToBytes(r3, o.RankMode)
        r5  == IF o.RankMode = SPH_RANK_EXPR THEN writeLenStrToBytes(r4, o.RankExpr) ELSE r4
        r6  == writeInt32ToBytes(r5, o.SortMode)
        r7  == writeLenStrToBytes(r6, o.SortBy)
        r8  == writeLenStrToBytes(r7, query)
        r9  == EncodeWeights(writeInt32ToBytes(r8, Len(c.weights)), c.weights)
        r10 == writeLenStrToBytes(r9, index)
        r11 == writeInt32ToBytes(r10, 1)
        r12 == writeInt64ToBytes(writeInt64ToBytes(r11, o.MinId), o.MaxId)
        r13 == EncodeFilters(writeInt32ToBytes(r12, Len(c.filters)), c.filters)
        r14 == writeLenStrToBytes(writeInt32ToBytes(r13, o.GroupFunc), o.GroupBy)
        r15 == writeLenStrToBytes(writeInt32ToBytes(r14, o.MaxMatches), o.GroupSort)
        r16 == writeInt32ToBytes(writeInt32ToBytes(writeInt32ToBytes(r15, o.Cutoff),
                                                   o.RetryCount), o.RetryDelay)
        r17 == writeLenStrToBytes(r16, o.GroupDistinct)
        r18 == IF o.LatitudeAttr = NIL \/ o.LongitudeAttr = NIL
                 THEN writeInt32ToBytes(r17, 0)
                 ELSE writeFloat32ToBytes(writeFloat32ToBytes(
                        writeLenStrToBytes(writeLenStrToBytes(writeInt32ToBytes(r17, 1),
                            o.LatitudeAttr), o.LongitudeAttr), o.Latitude), o.Longitude)
        r19 == EncodeWeightMap(writeInt32ToBytes(r18, Len(c.indexWeights)), c.indexWeights)
        r20 == writeInt32ToBytes(r19, o.MaxQueryTime)
        r21 == EncodeWeightMap(writeInt32ToBytes(r20, Len(c.fieldWeights)), c.fieldWeights)
        r22 == writeLenStrToBytes(r21, comment)
        r23 == writeInt32ToBytes(r22, Len(c.overrides)) \o OverrideSection(c).req
    IN  writeLenStrToBytes(r23, o.Select)

(***************************** response decoder ****************************)
\* byteParser: the stream, the cursor p, and ok = no slice went out of range yet.
\* A read past the end of the stream is a Go run-time panic; after it nothing is read.
NewParser(stream) == [stream |-> stream, p |-> 0, ok |-> TRUE]

InRange(bp, n) == bp.ok /\ n >= 0 /\ bp.p + n <= Len(bp.stream)

\* each reader returns [bp |-> the parser after the read, v |-> the value]
bpInt32(bp) ==
    IF InRange(bp, 4)
      THEN [bp |-> [bp EXCEPT !.p = @ + 4], v |-> BigEndian(bp.stream, bp.p, 4)]
      ELSE [bp |-> [bp EXCEPT !.ok = FALSE], v |-> 0]

bpUint32(bp) ==
    IF InRange(bp, 4)
      THEN [bp |-> [bp EXCEPT !.p = @ + 4], v |-> BigEndian(bp.stream, bp.p, 4)]
      ELSE [bp |-> [bp EXCEPT !.ok = FALSE], v |-> 0]

\* the model's streams carry 64-bit values below 2^31: the value is the lower word
bpUint64(bp) ==
    IF InRange(bp, 8)
      THEN [bp |-> [bp EXCEPT !.p = @ + 8], v |-> BigEndian(bp.stream, bp.p + 4, 4)]
      ELSE [bp |-> [bp EXCEPT !.ok = FALSE], v |-> 0]

bpFloat32(bp) ==
    IF InRange(bp, 4)
      THEN [bp |-> [bp EXCEPT !.p = @ + 4], v |-> Slice(bp.stream, bp.p, bp.p + 4)]
      ELSE [bp |-> [bp EXCEPT !.ok = FALSE], v |-> F32Zero]

\* bp.String() once the length n has been read: n.v bytes, or "" when n.v <= 0
bpStringOf(n) ==
    IF ~n.bp.ok THEN [bp |-> n.bp, v |-> NIL]
    ELSE IF n.v > 0
      THEN IF InRange(n.bp, n.v)
             THEN [bp |-> [n.bp EXCEPT !.p = @ + n.v],
                   v |-> Slice(n.bp.stream, n.bp.p, n.bp.p + n.v)]
             ELSE [bp |-> [n.bp EXCEPT !.ok = FALSE], v |-> NIL]
      ELSE [bp |-> n.bp, v |-> NIL]

bpString(bp) == bpStringOf(bpInt32(bp))

\* A run of reads is x = [bp, v]: the parser and the values read so far.
Start(bp) == [bp |-> bp, v |-> <<>>]

\* append(acc, y.v) for the read y
Pushed(acc, y) == [bp |-> y.bp, v |-> Append(acc, y.v)]

thenInt32(x) == Pushed(x.v, bpInt32(x.bp))

thenUint32(x) == Pushed(x.v, bpUint32(x.bp))

thenUint64(x) == Pushed(x.v, bpUint64(x.bp))

thenString(x) == Pushed(x.v, bpString(x.bp))

\* n length-prefixed strings
RECURSIVE DecodeStrings(_, _)
DecodeStrings(x, n) ==
    IF n <= 0 \/ ~x.bp.ok THEN x ELSE DecodeStrings(thenString(x), n - 1)

\* the pair y.v = <<name, type>> appended to the names and to the types
AttrPushed(acc, y) ==
    [bp |-> y.bp,
     v  |-> [names |-> Append(acc.names, y.v[1]), types |-> Append(acc.types, y.v[2])]]

\* n (name, type) pairs: x.v.names and x.v.types are built side by side
RECURSIVE DecodeAttrs(_, _)
DecodeAttrs(x, n) ==
    IF n <= 0 \/ ~x.bp.ok THEN x
    ELSE DecodeAttrs(AttrPushed(x.v, thenInt32(thenString(Start(x.bp)))), n - 1)

\* SPH_ATTR_MULTI: n 32-bit values
RECURSIVE DecodeMulti(_, _)
DecodeMulti(x, n) ==
    IF n <= 0 \/ ~x.bp.ok THEN x ELSE DecodeMulti(thenUint32(x), n - 1)

\* of the two words y.v of a 64-bit value the first is kept
Multi64Pushed(acc, y) == [bp |-> y.bp, v |-> Append(acc, y.v[1])]

\* SPH_ATTR_MULTI64: n pairs of words
RECURSIVE DecodeMulti64(_, _)
DecodeMulti64(x, n) ==
    IF n <= 0 \/ ~x.bp.ok THEN x
    ELSE DecodeMulti64(Multi64Pushed(x.v, thenUint32(thenUint32(Start(x.bp)))), n - 1)

\* the n.v values that follow the count n
MultiOf(n) == DecodeMulti(Start(n.bp), n.v)

Multi64Of(n) == DecodeMulti64(Start(n.bp), n.v \div 2)

\* the mutant of Kind: every value is stored as a uint32
KindUint32(kind, x) == [bp |-> x.bp, v |-> [kind |-> "uint32", val |-> x.v]]

\* the value read, tagged with its Go type
Kind(kind, x) == [bp |-> x.bp, v |-> [kind |-> kind, val |-> x.v]]

\* one attribute value, by the declared type
DecodeAttrValue(bp, attrType) ==
    IF attrType = SPH_ATTR_BIGINT THEN Kind("uint64", bpUint64(bp))
    ELSE IF attrType = SPH_ATTR_FLOAT THEN Kind("float32", bpFloat32(bp))
    ELSE IF attrType = SPH_ATTR_STRING THEN Kind("string", bpString(bp))
    ELSE IF attrType = SPH_ATTR_MULTI THEN Kind("[]uint32", MultiOf(bpInt32(bp)))
    ELSE IF attrType = SPH_ATTR_MULTI64 THEN Kind("[]uint64", Multi64Of(bpInt32(bp)))
    ELSE Kind("uint32", bpUint32(bp))

\* the attribute values of one match, one per entry of result.AttrTypes
RECURSIVE DecodeAttrValues(_, _)
DecodeAttrValues(x, types) ==
    IF types = <<>> \/ ~x.bp.ok THEN x
    ELSE DecodeAttrValues(Pushed(x.v, DecodeAttrValue(x.bp, Head(types))), Tail(types))

\* Match{DocId, Weight, AttrValues} from the document id and the weight y.v and
\* the attribute values av.v
MatchOf(y, av) ==
    [bp |-> av.bp, v |-> [DocId |-> y.v[1], Weight |-> y.v[2], AttrValues |-> av.v]]

MatchAfterWeight(y, types) == MatchOf(y, DecodeAttrValues(Start(y.bp), types))

DecodeMatch(bp, id64, types) ==
    MatchAfterWeight(thenInt32(IF id64 = 1 THEN thenUint64(Start(bp))
                                           ELSE thenUint32(Start(bp))),
                     types)

RECURSIVE DecodeMatches(_, _, _, _)
DecodeMatches(x, n, id64, types) ==
    IF n <= 0 \/ ~x.bp.ok THEN x
    ELSE DecodeMatches(Pushed(x.v, DecodeMatch(x.bp, id64, types)), n - 1, id64, types)

\* WordInfo{Word, Docs, Hits} from the three values y.v
WordPushed(acc, y) ==
    [bp |-> y.bp, v |-> Append(acc, [Word |-> y.v[1], Docs |-> y.v[2], Hits |-> y.v[3]])]

RECURSIVE DecodeWords(_, _)
DecodeWords(x, n) ==
    IF n <= 0 \/ ~x.bp.ok THEN x
    ELSE DecodeWords(WordPushed(x.v, thenInt32(thenInt32(thenString(Start(x.bp))))), n - 1)

\* Result{Status: -1}: every other field has its zero value
ZeroResult ==
    [Status |-> -1, Warning |-> NIL, Error |-> NIL, Fields |-> <<>>, AttrNames |-> <<>>,
     AttrTypes |-> <<>>, Matches |-> <<>>, Total |-> 0, TotalFound |-> 0, Msecs |-> 0,
     Words |-> <<>>]

\* One pass of the loop of RunQueries, statement by statement.  Each step takes
\* and returns the parser and the result built so far: st = [bp, r].
\* result.<field> = the value of the read x
SetField(r, field, x) == [bp |-> x.bp, r |-> [r EXCEPT ![field] = x.v]]

\* result.Status = bp.Int32()
ReadResultStatus(st) == SetField(st.r, "Status", bpInt32(st.bp))

\* the message kept as the warning or as the error
SetMessage(r, x) ==
    [bp |-> x.bp,
     r  |-> IF r.Status = SEARCHD_WARNING THEN [r EXCEPT !.Warning = x.v]
            ELSE [r EXCEPT !.Error = ErrD("", x.v)]]

\* message := bp.String(), when the status is not SEARCHD_OK
ReadResultMessage(st) ==
    IF st.r.Status = SEARCHD_OK THEN st ELSE SetMessage(st.r, bpString(st.bp))

FieldsOf(n) == DecodeStrings(Start(n.bp), n.v)

ReadFields(st) == SetField(st.r, "Fields", FieldsOf(bpInt32(st.bp)))

AttrsOf(n) == DecodeAttrs([bp |-> n.bp, v |-> [names |-> <<>>, types |-> <<>>]], n.v)

SetAttrs(r, x) ==
    [bp |-> x.bp, r |-> [r EXCEPT !.AttrNames = x.v.names, !.AttrTypes = x.v.types]]

ReadAttrs(st) == SetAttrs(st.r, AttrsOf(bpInt32(st.bp)))

\* y.v = <<count, id64>>
MatchesOf(y, types) == DecodeMatches(Start(y.bp), y.v[1], y.v[2], types)

ReadMatches(st) ==
    SetField(st.r, "Matches", MatchesOf(thenInt32(thenInt32(Start(st.bp))), st.r.AttrTypes))

\* Total, TotalFound and the elapsed milliseconds (Time is float32(Msecs) / 1000.0)
SetTotals(r, y) ==
    [bp |-> y.bp, r |-> [r EXCEPT !.Total = y.v[1], !.TotalFound = y.v[2], !.Msecs = y.v[3]]]

ReadTotals(st) == SetTotals(st.r, thenUint32(thenInt32(thenInt32(Start(st.bp)))))

WordsOf(n) == DecodeWords(Start(n.bp), n.v)

ReadWords(st) == SetField(st.r, "Words", WordsOf(bpInt32(st.bp)))

\* the mutant of ReadResultBody: the `continue` after an error is missing
ReadResultBodyAlways(st) == ReadWords(ReadTotals(ReadMatches(ReadAttrs(ReadFields(st)))))

\* after the status and the message: an error ends the result (continue), anything
\* else is followed by the schema, the matches, the totals and the words
ReadResultBody(st) ==
    IF st.r.Error # NIL THEN st
    ELSE ReadWords(ReadTotals(ReadMatches(ReadAttrs(ReadFields(st)))))

DecodeResult(bp) ==
    ReadResultBody(ReadResultMessage(ReadResultStatus([bp |-> bp, r |-> ZeroResult])))

\* the mutant of AppendResult: the new result is put in front
AppendResultFront(results, result) == <<result>> \o results

\* results = append(results, result)
AppendResult(results, result) == Append(results, result)

ResultPushed(acc, st) == [bp |-> st.bp, v |-> AppendResult(acc, st.r)]

\* for i := 0; i < nreqs; i++ { ... }
RECURSIVE DecodeResults(_, _)
DecodeResults(x, n) ==
    IF n <= 0 \/ ~x.bp.ok THEN x
    ELSE DecodeResults(ResultPushed(x.v, DecodeResult(x.bp)), n - 1)

(**************************** connection manager ***************************)
\* The network's part in one operation: where (if anywhere) the transport fails,
\* the version the server announces, and the reply it sends.
\*   fail    "none" | "dial" | "deadline" | "verread" | "verwrite" | "write" | "header" | "body"
\*   version the 4-byte server version of the handshake
\*   status  the 2-byte status of the response header
\*   body    the response body (the header's length field is Len(body))

\* the socket net.DialTimeout returns: "unix" and the path when sc.Socket is
\* set, else "tcp" and the address fmt.Sprintf("%s:%d", sc.Host, sc.Port), kept
\* here as the host and the port
Dialled(o) ==
    IF o.Socket # NIL
      THEN [FreshSock EXCEPT !.network = "unix", !.path = o.Socket]
      ELSE [FreshSock EXCEPT !.network = "tcp", !.host = o.Host, !.port = o.Port]

\* connect() past its first check: dial, set the deadline, read the server
\* version, write the client version, clear the deadline
dialAndHandshake(o, c, s, net) ==
    IF o.Socket = NIL /\ ~(o.Port > 0)
      THEN [sc |-> [c EXCEPT !.connerror = FALSE], sock |-> s,
            err |-> Err("connect() > No valid socket or port!"), io |-> <<>>]
    ELSE IF net.fail = "dial"
      THEN [sc |-> [c EXCEPT !.conn = NoConn, !.connerror = TRUE], sock |-> NoSock,
            err |-> Err("connect() net.DialTimeout"), io |-> <<"dial">>]
    ELSE IF net.fail = "deadline"
      THEN [sc |-> [c EXCEPT !.conn = "open", !.connerror = TRUE],
            sock |-> Dialled(o),
            err |-> Err("connect() conn.SetDeadline()"), io |-> <<"dial", "setdeadline">>]
    ELSE IF net.fail = "verread"
      THEN [sc |-> [c EXCEPT !.conn = "open", !.connerror = TRUE],
            sock |-> [Dialled(o) EXCEPT !.deadline = TRUE],
            err |-> Err("connect() io.ReadFull()"),
            io |-> <<"dial", "setdeadline", "readver">>]
    ELSE IF net.version < 1
      THEN [sc |-> [c EXCEPT !.conn = "open", !.connerror = FALSE],
            sock |-> [Dialled(o) EXCEPT !.deadline = TRUE, !.verRead = 1],
            err |-> Err("connect() > expected searchd protocol version 1+"),
            io |-> <<"dial", "setdeadline", "readver">>]
    ELSE IF net.fail = "verwrite"
      THEN [sc |-> [c EXCEPT !.conn = "open", !.connerror = TRUE],
            sock |-> [Dialled(o) EXCEPT !.deadline = TRUE, !.verRead = 1, !.accepted = TRUE],
            err |-> Err("connect() conn.Write()"),
            io |-> <<"dial", "setdeadline", "readver", "writever">>]
    ELSE [sc |-> [c EXCEPT !.conn = "open", !.connerror = FALSE],
          sock |-> [Dialled(o) EXCEPT !.verRead = 1, !.verWritten = 1, !.accepted = TRUE,
                                     !.hello = writeInt32ToBytes(<<>>, VER_MAJOR_PROTO)],
          err |-> NIL,
          io |-> <<"dial", "setdeadline", "readver", "writever", "cleardeadline">>]

\* the mutant of connect: the early return on an open connection is missing
connectAlways(o, c, s, net) == dialAndHandshake(o, c, s, net)

\* connect(): returns the client fields, the socket, the error and the network calls made
connect(o, c, s, net) ==
    IF c.conn # NoConn
      THEN [sc |-> c, sock |-> s, err |-> NIL, io |-> <<>>]
      ELSE dialAndHandshake(o, c, s, net)

\* cmdVerLen followed by the request body
Frame(command, version, req) ==
    writeInt32ToBytes(writeInt16ToBytes(writeInt16ToBytes(<<>>, command), version), Len(req))
        \o req

\* The switch on the response status (sphinx.go 1331-1343).  A slice out of range
\* panics; the deferred recover of doRequest turns the panic into an error.
\* the statuses that carry a message of wlen bytes behind a 4-byte length
ReadStatusMessage(c, status, res, wlen) ==
    IF ~(Len(res) >= 4 /\ 4 + wlen <= Len(res))
      THEN [sc |-> c, res |-> NIL, err |-> Err("doRequest panic")]
    ELSE IF status = SEARCHD_WARNING
      THEN [sc |-> [c EXCEPT !.warning = Slice(res, 4, 4 + wlen)],
            res |-> Slice(res, 4 + wlen, Len(res)), err |-> NIL]
    ELSE [sc |-> c, res |-> NIL,
          err |-> ErrD("doRequest > SEARCHD_ERROR: ", Slice(res, 4, 4 + wlen))]

ReadStatus(c, status, res) ==
    IF status = SEARCHD_OK
      THEN [sc |-> c, res |-> res, err |-> NIL]
    ELSE IF status = SEARCHD_WARNING \/ status = SEARCHD_ERROR \/ status = SEARCHD_RETRY
      THEN ReadStatusMessage(c, status, res, BigEndian(res, 0, 4))
    ELSE [sc |-> c, res |-> NIL, err |-> Err("doRequest > unknown status code")]

\* the response was read whole: st is what the status switch made of it
Answered(cn, st, frame) ==
    [sc |-> st.sc, sock |-> cn.sock, res |-> st.res, err |-> st.err,
     io |-> cn.io \o <<"write", "readheader", "readbody">>, sent |-> <<frame>>]

\* doRequest after connect() has returned cn: the frame is written, the header
\* and the body are read, the status is looked at
doRequestOn(cn, frame, net) ==
    IF cn.err # NIL
      THEN [sc |-> cn.sc, sock |-> cn.sock, res |-> NIL, err |-> cn.err, io |-> cn.io,
            sent |-> <<>>]
    ELSE IF net.fail = "write"
      THEN [sc |-> [cn.sc EXCEPT !.connerror = TRUE], sock |-> [cn.sock EXCEPT !.failed = TRUE],
            res |-> NIL, err |-> Err("conn.Write error"), io |-> cn.io \o <<"write">>,
            sent |-> <<>>]
    ELSE IF net.fail = "header"
      THEN [sc |-> [cn.sc EXCEPT !.connerror = TRUE], sock |-> [cn.sock EXCEPT !.failed = TRUE],
            res |-> NIL, err |-> Err("doRequest > just read bytes into header!"),
            io |-> cn.io \o <<"write", "readheader">>, sent |-> <<frame>>]
    ELSE IF Len(net.body) <= 0
      THEN [sc |-> cn.sc, sock |-> cn.sock, res |-> NIL,
            err |-> Err("doRequest > invalid response packet size"),
            io |-> cn.io \o <<"write", "readheader">>, sent |-> <<frame>>]
    ELSE IF net.fail = "body"
      THEN [sc |-> [cn.sc EXCEPT !.connerror = TRUE], sock |-> [cn.sock EXCEPT !.failed = TRUE],
            res |-> NIL, err |-> Err("doRequest > just read bytes into res"),
            io |-> cn.io \o <<"write", "readheader", "readbody">>, sent |-> <<frame>>]
    ELSE Answered(cn, ReadStatus(cn.sc, net.status, net.body), frame)

\* the mutant of doRequest: a request that fails is issued again when RetryCount > 0
doRequestAgain(o, c, s, command, version, req, net) ==
    IF o.RetryCount > 0
       /\ doRequestOn(connect(o, c, s, net), Frame(command, version, req), net).err # NIL
      THEN [doRequestOn(connect(o, c, s, net), Frame(command, version, req), net) EXCEPT
              !.io = @ \o @, !.sent = @ \o @]
      ELSE doRequestOn(connect(o, c, s, net), Frame(command, version, req), net)

\* doRequest(command, version, req): the client fields, the socket, the response
\* body or the error, the network calls made and the frames written
doRequest(o, c, s, command, version, req, net) ==
    doRequestOn(connect(o, c, s, net), Frame(command, version, req), net)

(******************************** the daemon *******************************)
\* What searchd answers to one query of a batch, before it is put on the wire.
\* A value of a match is [kind, val] with kind the width the daemon sends.
StrGroupId == <<103>>           \* an attribute name, "g"
StrTitle == <<116, 105>>        \* a field name, "ti"

BlockOk ==
    [status |-> SEARCHD_OK, msg |-> NIL, fields |-> <<StrTitle>>,
     attrs |-> <<[name |-> StrGroupId, type |-> SPH_ATTR_INTEGER]>>, id64 |-> 1,
     matches |-> <<[id |-> 5, weight |-> 2, vals |-> <<[kind |-> "uint32", val |-> 7]>>]>>,
     total |-> 1, found |-> 1, msecs |-> 3,
     words |-> <<[word |-> StrTest, docs |-> 1, hits |-> 2]>>]

BlockWarn ==
    [status |-> SEARCHD_WARNING, msg |-> StrWarn, fields |-> <<StrTitle>>,
     attrs |-> <<>>, id64 |-> 0, matches |-> <<>>,
     total |-> 0, found |-> 4, msecs |-> 0, words |-> <<>>]

BlockError == [BlockWarn EXCEPT !.status = SEARCHD_ERROR, !.msg = StrOops]

BlockRetry == [BlockWarn EXCEPT !.status = SEARCHD_RETRY, !.msg = NIL]

Blocks == <<BlockOk, BlockWarn, BlockError, BlockRetry>>

\* An answer with an attribute of every type and two matches.  A 64-bit
\* multi-value goes over the wire as every 64-bit value of the protocol does,
\* big-endian: the high word, then the low word.  Here <<99, 7, 0, 5>> is the
\* two values {hi = 99, lo = 7} and {hi = 0, lo = 5}.
BlockTyped ==
    [BlockOk EXCEPT
       !.attrs = <<[name |-> StrGroupId, type |-> SPH_ATTR_INTEGER],
                   [name |-> StrTitle, type |-> SPH_ATTR_BIGINT],
                   [name |-> StrTest, type |-> SPH_ATTR_FLOAT],
                   [name |-> StrMy, type |-> SPH_ATTR_STRING],
                   [name |-> StrIndex, type |-> SPH_ATTR_MULTI],
                   [name |-> StrWarn, type |-> SPH_ATTR_MULTI64]>>,
       !.matches = <<[id |-> 5, weight |-> 2,
                      vals |-> <<[kind |-> "uint32", val |-> 7], [kind |-> "uint64", val |-> 9],
                                 [kind |-> "float32", val |-> <<63, 128, 0, 0>>],
                                 [kind |-> "string", val |-> StrMy],
                                 [kind |-> "[]uint32", val |-> <<3, 4>>],
                                 [kind |-> "[]uint64", val |-> <<99, 7, 0, 5>>]>>],
                     [id |-> 6, weight |-> 1,
                      vals |-> <<[kind |-> "uint32", val |-> 0], [kind |-> "uint64", val |-> 1],
                                 [kind |-> "float32", val |-> F32Zero],
                                 [kind |-> "string", val |-> NIL],
                                 [kind |-> "[]uint32", val |-> <<>>],
                                 [kind |-> "[]uint64", val |-> <<0, 8>>]>>]>>,
       !.total = 2, !.found = 2]

\* the answers to a batch of n queries: the blocks in turn, from each starting point
Replies(n) == {[i \in 1..n |-> Blocks[((i + k) % Len(Blocks)) + 1]] : k \in 1..Len(Blocks)}

\* the answer in which every query succeeds
AllOk(n) == [i \in 1..n |-> BlockOk]

RECURSIVE WireStrings(_, _)
WireStrings(bs, strs) ==
    IF strs = <<>> THEN bs ELSE WireStrings(writeLenStrToBytes(bs, Head(strs)), Tail(strs))

RECURSIVE WireAttrs(_, _)
WireAttrs(bs, attrs) ==
    IF attrs = <<>> THEN bs
    ELSE WireAttrs(writeInt32ToBytes(writeLenStrToBytes(bs, Head(attrs).name), Head(attrs).type),
                   Tail(attrs))

\* a multi-value: the count of 32-bit words, then the words
RECURSIVE WireDwords(_, _)
WireDwords(bs, ws) ==
    IF ws = <<>> THEN bs ELSE WireDwords(writeInt32ToBytes(bs, Head(ws)), Tail(ws))

WireValue(bs, x) ==
    IF x.kind = "uint64" THEN writeInt64ToBytes(bs, x.val)
    ELSE IF x.kind \in {"[]uint32", "[]uint64"}
      THEN WireDwords(writeInt32ToBytes(bs, Len(x.val)), x.val)
    ELSE IF x.kind = "string" THEN writeLenStrToBytes(bs, x.val)
    ELSE IF x.kind = "float32" THEN writeFloat32ToBytes(bs, x.val)
    ELSE writeInt32ToBytes(bs, x.val)

RECURSIVE WireValues(_, _)
WireValues(bs, xs) ==
    IF xs = <<>> THEN bs ELSE WireValues(WireValue(bs, Head(xs)), Tail(xs))

RECURSIVE WireMatches(_, _, _)
WireMatches(bs, id64, ms) ==
    IF ms = <<>> THEN bs
    ELSE LET m  == Head(ms)
             b1 == IF id64 = 1 THEN writeInt64ToBytes(<<>>, m.id)
                               ELSE writeInt32ToBytes(<<>>, m.id)
         IN  WireMatches(bs \o WireValues(writeInt32ToBytes(b1, m.weight), m.vals), id64,
                         Tail(ms))

RECURSIVE WireWords(_, _)
WireWords(bs, ws) ==
    IF ws = <<>> THEN bs
    ELSE LET w == Head(ws)
         IN  WireWords(writeInt32ToBytes(writeInt32ToBytes(writeLenStrToBytes(bs, w.word),
                                                           w.docs), w.hits), Tail(ws))

\* one result block in the layout RunQueries reads
WireBlock(bs, b) ==
    LET b1 == writeInt32ToBytes(bs, b.status)
        b2 == IF b.status # SEARCHD_OK THEN writeLenStrToBytes(b1, b.msg) ELSE b1
    IN  IF b.status = SEARCHD_ERROR \/ b.status = SEARCHD_RETRY THEN b2
        ELSE LET b3 == WireStrings(writeInt32ToBytes(b2, Len(b.fields)), b.fields)
                 b4 == WireAttrs(writeInt32ToBytes(b3, Len(b.attrs)), b.attrs)
                 b5 == writeInt32ToBytes(writeInt32ToBytes(b4, Len(b.matches)), b.id64)
                 b6 == WireMatches(b5, b.id64, b.matches)
                 b7 == writeInt32ToBytes(writeInt32ToBytes(writeInt32ToBytes(b6, b.total),
                                                           b.found), b.msecs)
             IN  WireWords(writeInt32ToBytes(b7, Len(b.words)), b.words)

RECURSIVE WireReply(_, _)
WireReply(bs, blocks) ==
    IF blocks = <<>> THEN bs ELSE WireReply(bs \o WireBlock(<<>>, Head(blocks)), Tail(blocks))

\* a transport failure at `f`
NetFail(f) == [fail |-> f, version |-> 1, status |-> SEARCHD_OK, body |-> <<0>>, blocks |-> <<>>]

\* a reply with header status `st` and body `body`, made from `blocks`
NetReply(st, body, blocks) ==
    [fail |-> "none", version |-> 1, status |-> st, body |-> body, blocks |-> blocks]

ConnectFailPoints == {"dial", "deadline", "verread", "verwrite"}

CommandFailPoints == {"write", "header", "body"}

\* what the network can do to connect(): nothing when the client holds a
\* connection (connect() returns at once), else a failure of the dial or of the
\* handshake, or a server that announces version 0
ConnectNets(connected) ==
    IF connected THEN {}
    ELSE {NetFail(f) : f \in ConnectFailPoints} \cup {[NetFail("none") EXCEPT !.version = 0]}

\* the reply cut short by two bytes
CutShort(st, body, bs) == NetReply(st, SubSeq(body, 1, Len(body) - 2), bs)

\* Everything the network does to a search of n queries: a failure of connect, a
\* transport failure of the command, a reply of n blocks, the all-OK reply cut
\* short by two bytes, the all-OK reply behind a header warning, a header error
\* with and without its message, an unknown status and an empty body.
SearchNets(n, connected) ==
    ConnectNets(connected)
    \cup {NetFail(f) : f \in CommandFailPoints}
    \cup {NetReply(SEARCHD_OK, WireReply(<<>>, bs), bs) : bs \in Replies(n)}
    \cup {CutShort(SEARCHD_OK, WireReply(<<>>, AllOk(n)), AllOk(n)),
          NetReply(SEARCHD_WARNING, WireReply(writeLenStrToBytes(<<>>, StrWarn), AllOk(n)), AllOk(n))}
    \cup {NetReply(st, writeLenStrToBytes(<<>>, StrOops), <<>>)
            : st \in {SEARCHD_ERROR, SEARCHD_RETRY, 4}}
    \cup {NetReply(SEARCHD_ERROR, <<0, 0>>, <<>>), NetReply(SEARCHD_OK, <<>>, <<>>)}

(******************************** operations *******************************)
\* the mutant of Position: the length is returned, not the index
PositionOffByOne(reqs) == Len(reqs)

\* len(sc.reqs) - 1, the position AddQuery returns
Position(reqs) == Len(reqs) - 1

\* sc.reqs = append(sc.reqs, req); return len(sc.reqs) - 1, nil
appendReq(c, req) ==
    [sc |-> [c EXCEPT !.reqs = Append(@, req)], i |-> Position(Append(c.reqs, req)), err |-> NIL,
     panic |-> FALSE]

\* AddQuery: the request is built, appended and its position returned.  In the
\* walk of the overrides a failed type assertion panics and a type without a
\* case returns -1 and the error.
addQuery(o, c, query, index, comment) ==
    IF OverrideSection(c).panic THEN [sc |-> c, i |-> -1, err |-> NIL, panic |-> TRUE]
    ELSE IF OverrideSection(c).err # NIL
      THEN [sc |-> c, i |-> -1, err |-> OverrideSection(c).err, panic |-> FALSE]
    ELSE appendReq(c, EncodeQuery(o, c, query, index, comment))

RECURSIVE Concat(_, _)
Concat(bs, reqs) == IF reqs = <<>> THEN bs ELSE Concat(bs \o Head(reqs), Tail(reqs))

\* client marker 0, the count, the requests
AllReqs(reqs) == Concat(writeInt32ToBytes(writeInt32ToBytes(<<>>, 0), Len(reqs)), reqs)

\* the mutant of AfterRun: the requests queued since the frame was built are kept
AfterRunKeepsLater(reqs) == Tail(reqs)

\* sc.reqs = nil, the last statement of a RunQueries that succeeds
AfterRun(reqs) == <<>>

\* the mutant of NoQueries: the check of the empty queue is missing
NoQueriesNever(reqs) == FALSE

\* len(sc.reqs) == 0, the first check of RunQueries
NoQueries(reqs) == Len(reqs) = 0

\* RunQueries after doRequest has returned dr: the nreqs results are decoded and
\* the queue is cleared.  panic: a read of the decoder went out of range, which
\* no recover of RunQueries or of its callers catches.
decodeResponse(dr, d, blocks) ==
    IF ~d.bp.ok
      THEN [sc |-> dr.sc, sock |-> dr.sock, results |-> NIL, io |-> dr.io,
            sent |-> dr.sent, panic |-> TRUE, err |-> NIL, blocks |-> blocks]
      ELSE [sc |-> [dr.sc EXCEPT !.reqs = AfterRun(@)], sock |-> dr.sock,
            results |-> d.v, io |-> dr.io, sent |-> dr.sent, panic |-> FALSE,
            err |-> NIL, blocks |-> blocks]

\* the mutant of afterRequest: a failed request empties the queue as well
afterRequestDropsQueue(dr, nreqs, blocks) ==
    IF dr.err # NIL
      THEN [sc |-> [dr.sc EXCEPT !.reqs = <<>>], sock |-> dr.sock, results |-> NIL,
            io |-> dr.io, sent |-> dr.sent, panic |-> FALSE, err |-> dr.err,
            blocks |-> <<>>]
      ELSE decodeResponse(dr, DecodeResults(Start(NewParser(dr.res)), nreqs), blocks)

afterRequest(dr, nreqs, blocks) ==
    IF dr.err # NIL
      THEN [sc |-> dr.sc, sock |-> dr.sock, results |-> NIL, io |-> dr.io,
            sent |-> dr.sent, panic |-> FALSE, err |-> dr.err, blocks |-> <<>>]
      ELSE decodeResponse(dr, DecodeResults(Start(NewParser(dr.res)), nreqs), blocks)

RunQueriesNoQueries(c, s) ==
    [sc |-> c, sock |-> s, results |-> NIL, io |-> <<>>, sent |-> <<>>, panic |-> FALSE,
     err |-> Err("RunQueries > No queries defined, issue AddQuery() first."),
     blocks |-> <<>>]

runQueries(o, c, s, net) ==
    IF NoQueries(c.reqs)
      THEN RunQueriesNoQueries(c, s)
      ELSE afterRequest(doRequest(o, c, s, SEARCHD_COMMAND_SEARCH, VER_COMMAND_SEARCH,
                                  AllReqs(c.reqs), net),
                        Len(c.reqs), net.blocks)

\* the mutant of ResetReqs: the queue is kept
ResetReqsKeep(reqs) == reqs

\* sc.reqs = nil, the reset at the start of Query
ResetReqs(reqs) == <<>>

\* sc.warning = result.Warning, the last statement of Query
SetWarning(c, result) == [c EXCEPT !.warning = result.Warning]

\* the mutant of ResultFailed: a result that carries an error is returned
ResultFailedNever(result) == FALSE

\* result.Error != nil
ResultFailed(result) == result.Error # NIL

\* Query after RunQueries has returned r: the one result is unwrapped
unwrapResult(r) ==
    IF r.panic \/ r.err # NIL THEN r
    ELSE IF Len(r.results) = 0
      THEN [r EXCEPT !.results = NIL, !.err = Err("Query > Empty results!")]
    ELSE IF ResultFailed(r.results[1])
      THEN [r EXCEPT !.results = NIL,
                     !.err = ErrD("Query > Result error: ", r.results[1].Error[2])]
    ELSE [r EXCEPT !.sc = SetWarning(r.sc, r.results[1]), !.results = <<r.results[1]>>]

\* Query after its AddQuery has returned a
runAdded(o, a, s, net) ==
    IF a.panic \/ a.err # NIL
      THEN [sc |-> a.sc, sock |-> s, results |-> NIL, io |-> <<>>, sent |-> <<>>,
            panic |-> a.panic, err |-> a.err, blocks |-> <<>>]
      ELSE unwrapResult(runQueries(o, a.sc, s, net))

\* Query up to its AddQuery: the index defaults to "*", the queue is reset and
\* the query added.  runAdded is the rest of Query.
queryAdd(o, c, q, index, comment) ==
    addQuery(o, [c EXCEPT !.reqs = ResetReqs(@)], q, IF index = NIL THEN StrStar ELSE index,
             comment)

\* the mutant of openOn: the frame is sent with doRequest, which waits for a reply
openOnAwaitsReply(cn, net) ==
    IF cn.err # NIL
      THEN [sc |-> cn.sc, sock |-> cn.sock, io |-> cn.io, sent |-> <<>>,
            err |-> Err("Open > connect")]
      ELSE [sc |-> cn.sc, sock |-> cn.sock, io |-> cn.io \o <<"write", "readheader">>,
            sent |-> <<Frame(SEARCHD_COMMAND_PERSIST, 0, <<0, 0, 0, 1>>)>>,
            err |-> (IF net.fail = "write" THEN Err("Open > sc.conn.Write()") ELSE NIL)]

\* Open: connect, then the Persist frame, which is written and not answered
openOn(cn, net) ==
    IF cn.err # NIL
      THEN [sc |-> cn.sc, sock |-> cn.sock, io |-> cn.io, sent |-> <<>>,
            err |-> Err("Open > connect")]
    ELSE IF net.fail = "write"
      THEN [sc |-> [cn.sc EXCEPT !.connerror = TRUE],
            sock |-> [cn.sock EXCEPT !.failed = TRUE], io |-> cn.io \o <<"write">>,
            sent |-> <<>>, err |-> Err("Open > sc.conn.Write()")]
    ELSE [sc |-> cn.sc, sock |-> cn.sock, io |-> cn.io \o <<"write">>,
          sent |-> <<writeInt32ToBytes(writeInt32ToBytes(writeInt16ToBytes(
                       writeInt16ToBytes(<<>>, SEARCHD_COMMAND_PERSIST), 0), 4), 1)>>,
          err |-> NIL]

open(o, c, s, net) == openOn(connect(o, c, s, net), net)

\* the mutant of close: the handle is not reset after conn.Close()
closeKeepsHandle(c, s, closeOk) ==
    IF c.conn = NoConn
      THEN [sc |-> c, sock |-> s, io |-> <<>>, err |-> Err("Close > Not connected!")]
      ELSE [sc |-> c, sock |-> s, io |-> <<"close">>,
            err |-> (IF closeOk THEN NIL ELSE Err("conn.Close()"))]

\* Close: closeOk is whether conn.Close() succeeds
close(c, s, closeOk) ==
    IF c.conn = NoConn
      THEN [sc |-> c, sock |-> s, io |-> <<>>, err |-> Err("Close > Not connected!")]
    ELSE IF ~closeOk
      THEN [sc |-> c, sock |-> s, io |-> <<"close">>, err |-> Err("conn.Close()")]
    ELSE [sc |-> [c EXCEPT !.conn = NoConn], sock |-> NoSock, io |-> <<"close">>, err |-> NIL]

(****************************** configuration ******************************)
\* GetLastError() and Error(): the configuration error last recorded
GetLastError(c) == c.err

GetLastWarning(c) == c.warning

\* the mutant of SetLimits: the values are stored before they are validated
SetLimitsStoresFirst(o, c, offset, limit, maxMatches, cutoff) ==
    [opts |-> [o EXCEPT !.Offset = offset, !.Limit = limit,
                        !.MaxMatches = IF maxMatches > 0 THEN maxMatches ELSE @,
                        !.Cutoff = IF cutoff > 0 THEN cutoff ELSE @],
     sc   |-> IF offset < 0 \/ limit <= 0 \/ maxMatches <= 0 \/ cutoff < 0
                THEN [c EXCEPT !.err = Err("SetLimits > invalid argument")]
                ELSE c]

\* each setter returns the Options and the client fields after the call
SetLimits(o, c, offset, limit, maxMatches, cutoff) ==
    IF offset < 0
      THEN [opts |-> o, sc |-> [c EXCEPT !.err = Err("SetLimits > offset must not be negative")]]
    ELSE IF limit <= 0
      THEN [opts |-> o, sc |-> [c EXCEPT !.err = Err("SetLimits > limit must be positive")]]
    ELSE IF maxMatches <= 0
      THEN [opts |-> o, sc |-> [c EXCEPT !.err = Err("SetLimits > maxMatches must be positive")]]
    ELSE IF cutoff < 0
      THEN [opts |-> o, sc |-> [c EXCEPT !.err = Err("SetLimits > cutoff must not be negative")]]
    ELSE [opts |-> [o EXCEPT !.Offset = offset, !.Limit = limit,
                             !.MaxMatches = IF maxMatches > 0 THEN maxMatches ELSE @,
                             !.Cutoff = IF cutoff > 0 THEN cutoff ELSE @],
          sc |-> c]

\* DefaultOptions in the body of SetServer is the package variable, a pointer:
\* d is the Options object it points to at the time of the call.  For a
\* client from NewClient() that is the client's own Options, o.
ServerHost(o, d, host) ==
    IF host # NIL
      THEN IF host[1] = 47
             THEN [o EXCEPT !.Socket = host]
           ELSE IF Len(host) > 7 /\ SubSeq(host, 1, 7) = StrUnix
             THEN [o EXCEPT !.Socket = SubSeq(host, 8, Len(host))]
           ELSE [o EXCEPT !.Host = host]
      ELSE [o EXCEPT !.Host = d.Host]

isTcpMode(host) ==
    ~(host # NIL /\ (host[1] = 47 \/ (Len(host) > 7 /\ SubSeq(host, 1, 7) = StrUnix)))

SetServer(o, c, host, port) ==
    [opts |-> IF isTcpMode(host)
                THEN [ServerHost(o, o, host) EXCEPT !.Port = IF port > 0 THEN port ELSE o.Port]
                ELSE ServerHost(o, o, host),
     sc |-> c]

SetSelect(o, c, str) ==
    IF str = NIL
      THEN [opts |-> o, sc |-> [c EXCEPT !.err = Err("SetSelect > selectStr is empty!")]]
      ELSE [opts |-> [o EXCEPT !.Select = str], sc |-> c]

SetMatchMode(o, c, mode) ==
    IF mode < 0 \/ mode > SPH_MATCH_EXTENDED2
      THEN [opts |-> o, sc |-> [c EXCEPT !.err = Err("SetMatchMode > unknown mode value")]]
      ELSE [opts |-> [o EXCEPT !.MatchMode = mode], sc |-> c]

\* SetOverride returns the client fields and whether it panicked: the map of a
\* client is nil until something makes it, and a write to a nil map panics
SetOverride(c, attrName, attrType, values) ==
    IF attrName = NIL
      THEN [sc |-> [c EXCEPT !.err = Err("SetOverride > attrName is empty!")], panic |-> FALSE]
    ELSE IF /\ (attrType < 1 \/ attrType > SPH_ATTR_STRING)
            /\ attrType # SPH_ATTR_MULTI
            /\ SPH_ATTR_MULTI # SPH_ATTR_MULTI64
      THEN [sc |-> [c EXCEPT !.err = Err("SetOverride > invalid attrType")], panic |-> FALSE]
    ELSE IF c.overridesNil
      THEN [sc |-> c, panic |-> TRUE]
    ELSE [sc |-> [c EXCEPT !.overrides =
                    SelectSeq(@, LAMBDA ov : ov.attrName # attrName)
                        \o <<[attrName |-> attrName, attrType |-> attrType, values |-> values]>>],
          panic |-> FALSE]

SetSortMode(o, c, mode, sortBy) ==
    IF mode < 0 \/ mode > SPH_SORT_EXPR
      THEN [opts |-> o, sc |-> [c EXCEPT !.err = Err("SetSortMode > unknown mode value")]]
    ELSE IF mode # SPH_SORT_RELEVANCE /\ sortBy = NIL
      THEN [opts |-> o,
            sc |-> [c EXCEPT !.err = Err("SetSortMode > sortby string must not be empty")]]
    ELSE [opts |-> [o EXCEPT !.SortMode = mode, !.SortBy = sortBy], sc |-> c]

\* the weights of a map[string]int, a sequence of <<name, weight>>: one is < 1
WeightBelowOne(weights) == \E k \in 1..Len(weights) : weights[k][2] < 1

SetFieldWeights(o, c, weights) ==
    IF WeightBelowOne(weights)
      THEN [opts |-> o,
            sc |-> [c EXCEPT !.err = Err("SetFieldWeights > weights must be positive 32-bit integers")]]
      ELSE [opts |-> o, sc |-> [c EXCEPT !.fieldWeights = weights]]

SetIndexWeights(o, c, weights) ==
    IF WeightBelowOne(weights)
      THEN [opts |-> o,
            sc |-> [c EXCEPT !.err = Err("SetIndexWeights > weights must be positive 32-bit integers")]]
      ELSE [opts |-> o, sc |-> [c EXCEPT !.indexWeights = weights]]

SetIDRange(o, c, min, max) ==
    IF min > max
      THEN [opts |-> o, sc |-> [c EXCEPT !.err = Err("SetIDRange > min > max!")]]
      ELSE [opts |-> [o EXCEPT !.MinId = min, !.MaxId = max], sc |-> c]

SetFilter(o, c, attr, values, exclude) ==
    IF attr = NIL
      THEN [opts |-> o, sc |-> [c EXCEPT !.err = Err("SetFilter > attribute name is empty!")]]
    ELSE IF Len(values) = 0
      THEN [opts |-> o, sc |-> [c EXCEPT !.err = Err("SetFilter > values is empty!")]]
    ELSE [opts |-> o,
          sc |-> [c EXCEPT !.filters = Append(@,
                    [filterType |-> SPH_FILTER_VALUES, attr |-> attr, values |-> values,
                     umin |-> 0, umax |-> 0, fmin |-> F32Zero, fmax |-> F32Zero,
                     exclude |-> exclude])]]

\* A float32 is its bit pattern.  The magnitude is the pattern without the
\* sign bit; it is above that of the infinities exactly for a NaN.
FloatMagnitude(f) == ((f[1] % 128) * 16777216) + (f[2] * 65536) + (f[3] * 256) + f[4]

IsNaN(f) == FloatMagnitude(f) > 2139095040

\* the finite floats and the infinities in their order; -0 and +0 are equal
FloatOrder(f) == IF f[1] >= 128 THEN -FloatMagnitude(f) ELSE FloatMagnitude(f)

\* Go's a > b and a <= b on float32: both are false when a or b is a NaN
FloatGreater(a, b) == ~IsNaN(a) /\ ~IsNaN(b) /\ FloatOrder(a) > FloatOrder(b)

FloatLessEq(a, b) == ~IsNaN(a) /\ ~IsNaN(b) /\ FloatOrder(a) <= FloatOrder(b)

SetFilterFloatRange(o, c, attr, fmin, fmax, exclude) ==
    IF attr = NIL
      THEN [opts |-> o,
            sc |-> [c EXCEPT !.err = Err("SetFilterFloatRange > attribute name is empty!")]]
    ELSE IF FloatGreater(fmin, fmax)
      THEN [opts |-> o, sc |-> [c EXCEPT !.err = Err("SetFilterFloatRange > min > max!")]]
    ELSE [opts |-> o,
          sc |-> [c EXCEPT !.filters = Append(@,
                    [filterType |-> SPH_FILTER_FLOATRANGE, attr |-> attr, values |-> <<>>,
                     umin |-> 0, umax |-> 0, fmin |-> fmin, fmax |-> fmax,
                     exclude |-> exclude])]]

SetGeoAnchor(o, c, latitudeAttr, longitudeAttr, latitude, longitude) ==
    IF latitudeAttr = NIL
      THEN [opts |-> o, sc |-> [c EXCEPT !.err = Err("SetGeoAnchor > latitudeAttr is empty!")]]
    ELSE IF longitudeAttr = NIL
      THEN [opts |-> o, sc |-> [c EXCEPT !.err = Err("SetGeoAnchor > longitudeAttr is empty!")]]
    ELSE [opts |-> [o EXCEPT !.LatitudeAttr = latitudeAttr, !.LongitudeAttr = longitudeAttr,
                             !.Latitude = latitude, !.Longitude = longitude],
          sc |-> c]

SetGroupBy(o, c, groupBy, groupFunc, groupSort) ==
    IF groupFunc < 0 \/ groupFunc > SPH_GROUPBY_ATTRPAIR
      THEN [opts |-> o, sc |-> [c EXCEPT !.err = Err("SetGroupBy > unknown groupFunc value")]]
      ELSE [opts |-> [o EXCEPT !.GroupBy = groupBy, !.GroupFunc = groupFunc,
                               !.GroupSort = groupSort],
            sc |-> c]

SetGroupDistinct(o, c, groupDistinct) ==
    IF groupDistinct = NIL
      THEN [opts |-> o,
            sc |-> [c EXCEPT !.err = Err("SetGroupDistinct > groupDistinct is empty!")]]
      ELSE [opts |-> [o EXCEPT !.GroupDistinct = groupDistinct], sc |-> c]

SetConnectTimeout(o, c, timeout) ==
    IF timeout < 0
      THEN [opts |-> o,
            sc |-> [c EXCEPT !.err = Err("SetConnectTimeout > connect timeout must not be negative")]]
      ELSE [opts |-> [o EXCEPT !.Timeout = timeout], sc |-> c]

SetMaxQueryTime(o, c, maxQueryTime) ==
    IF maxQueryTime < 0
      THEN [opts |-> o,
            sc |-> [c EXCEPT !.err = Err("SetMaxQueryTime > maxQueryTime must not be negative")]]
      ELSE [opts |-> [o EXCEPT !.MaxQueryTime = maxQueryTime], sc |-> c]

\* rankexpr is variadic: a sequence of zero or more strings.  sc.RankMode is
\* assigned before rankexpr is looked at.
SetRankingMode(o, c, ranker, rankexpr) ==
    IF ranker < 0 \/ ranker > SPH_RANK_TOTAL
      THEN [opts |-> o, sc |-> [c EXCEPT !.err = Err("SetRankingMode > unknown ranker value")]]
    ELSE IF Len(rankexpr) > 0
      THEN IF ranker # SPH_RANK_EXPR
             THEN [opts |-> [o EXCEPT !.RankMode = ranker],
                   sc |-> [c EXCEPT !.err =
                             Err("SetRankingMode > rankexpr must used with SPH_RANK_EXPR!")]]
             ELSE [opts |-> [o EXCEPT !.RankMode = ranker, !.RankExpr = rankexpr[1]], sc |-> c]
    ELSE [opts |-> [o EXCEPT !.RankMode = ranker], sc |-> c]

\* the mutant of ResetFilters: the queued requests are dropped with the filters
ResetFiltersAndQueue(o, c) ==
    [opts |-> [o EXCEPT !.LatitudeAttr = NIL, !.LongitudeAttr = NIL, !.Latitude = F32Zero,
                        !.Longitude = F32Zero],
     sc |-> [c EXCEPT !.filters = <<>>, !.reqs = <<>>]]

ResetFilters(o, c) ==
    [opts |-> [o EXCEPT !.LatitudeAttr = NIL, !.LongitudeAttr = NIL, !.Latitude = F32Zero,
                        !.Longitude = F32Zero],
     sc |-> [c EXCEPT !.filters = <<>>]]

ResetGroupBy(o, c) ==
    [opts |-> [o EXCEPT !.GroupBy = NIL, !.GroupFunc = SPH_GROUPBY_DAY,
                        !.GroupSort = StrGroupDesc, !.GroupDistinct = NIL],
     sc |-> c]

SetFilterRange(o, c, attr, umin, umax, exclude) ==
    IF attr = NIL
      THEN [opts |-> o,
            sc |-> [c EXCEPT !.err = Err("SetFilterRange > attribute name is empty!")]]
    ELSE IF umin > umax
      THEN [opts |-> o, sc |-> [c EXCEPT !.err = Err("SetFilterRange > min > max!")]]
    ELSE [opts |-> o,
          sc |-> [c EXCEPT !.filters = Append(@,
                    [filterType |-> SPH_FILTER_RANGE, attr |-> attr, values |-> <<>>,
                     umin |-> umin, umax |-> umax, fmin |-> F32Zero, fmax |-> F32Zero,
                     exclude |-> exclude])]]

(********************************* actions *********************************)
Queries == {StrTest, StrMy}

Returned(op, err, results, i, q, index) ==
    [op |-> op, err |-> err, results |-> results, i |-> i, q |-> q, index |-> index]

\* what a successful AddQuery(q, index, "") is remembered by
Added(q, index) == [q |-> q, req |-> EncodeQuery(opts, sc, q, index, NIL)]

Init ==
    /\ opts = DefaultOptions
    /\ sc = NewClient
    /\ sock = NoSock
    /\ ret = Returned("NewClient", NIL, NIL, -1, NIL, NIL)
    /\ io = <<>>
    /\ sent = <<>>
    /\ replied = <<>>
    /\ added = <<>>
    /\ pending = 0
    /\ afterQuery = 0
    /\ panicked = FALSE
    /\ args = <<>>
    /\ response = <<>>
    /\ envelope = -1
    /\ race = NoRace
    /\ retried = 0
    /\ peer = NewClient

\* a caller adds a query to the batch
AddQuery ==
    /\ ~panicked
    /\ Len(sc.reqs) < MaxQueue
    /\ \E q \in Queries :
         \E a \in {addQuery(opts, sc, q, StrIndex, NIL)} :
             /\ sc' = a.sc
             /\ ret' = Returned("AddQuery", a.err, NIL, a.i, q, StrIndex)
             /\ panicked' = a.panic
             /\ added' = IF a.err = NIL /\ ~a.panic THEN Append(added, Added(q, StrIndex))
                                                  ELSE added
             /\ afterQuery' = IF a.err = NIL /\ ~a.panic /\ afterQuery = 1 THEN 2 ELSE 0
    /\ pending' = Len(sc.reqs)
    /\ io' = <<>>
    /\ sent' = <<>>
    /\ replied' = <<>>
    /\ args' = <<>>
    /\ response' = <<>>
    /\ envelope' = -1
    /\ race' = race
    /\ retried' = IF sc.reqs = <<>> THEN 0 ELSE retried
    /\ UNCHANGED <<opts, sock, peer>>

\* the response body an operation that returned r has read whole from the network
Received(r, net) ==
    IF r.io # <<>> /\ r.io[Len(r.io)] = "readbody" /\ net.fail # "body" THEN net.body ELSE <<>>

\* a caller runs the batch; the network answers with one of `nets`
RunQueriesWith(nets) ==
    /\ ~panicked
    /\ \E net \in nets :
         \E r \in {runQueries(opts, sc, sock, net)} :
             /\ sc' = r.sc
             /\ sock' = r.sock
             /\ ret' = Returned("RunQueries", r.err, r.results, -1, NIL, NIL)
             /\ io' = r.io
             /\ sent' = r.sent
             /\ replied' = r.blocks
             /\ response' = Received(r, net)
             /\ envelope' = IF Received(r, net) # <<>> THEN net.status ELSE -1
             /\ race' = race
             /\ retried' = IF r.err # NIL THEN Len(r.sc.reqs) ELSE retried
             /\ panicked' = r.panic
             /\ added' = IF r.err = NIL /\ ~r.panic THEN <<>> ELSE added
             /\ afterQuery' = IF r.err = NIL /\ ~r.panic /\ afterQuery = 2 THEN 3 ELSE 0
    /\ pending' = Len(sc.reqs)
    /\ args' = <<>>
    /\ UNCHANGED <<opts, peer>>

RunQueries == RunQueriesWith(SearchNets(Len(sc.reqs), sc.conn # NoConn))

\* a caller runs one query on its own (Query is queryAdd, then runAdded);
\* <<query, index>>, the index left empty or given
QueryArgs == {<<StrTest, NIL>>, <<StrMy, StrIndex>>}

QueryWith(nets) ==
    /\ ~panicked
    /\ \E a \in QueryArgs :
         \E q \in {a[1]}, index \in {a[2]}, ad \in {queryAdd(opts, sc, a[1], a[2], NIL)},
            g \in {Added(a[1], IF a[2] = NIL THEN StrStar ELSE a[2])} :
           \E net \in nets :
             \E r \in {runAdded(opts, ad, sock, net)} :
                 /\ sc' = r.sc
                 /\ sock' = r.sock
                 /\ ret' = Returned("Query", r.err, r.results, -1, q, index)
                 /\ io' = r.io
                 /\ sent' = r.sent
                 /\ replied' = r.blocks
                 /\ response' = Received(r, net)
                 /\ envelope' = IF Received(r, net) # <<>> THEN net.status ELSE -1
                 /\ race' = race
                 /\ retried' = IF r.err # NIL THEN Len(r.sc.reqs) ELSE 0
                 /\ panicked' = r.panic
                 /\ added' = IF r.sc.reqs = <<>> THEN <<>> ELSE <<g>>
                 /\ afterQuery' = IF r.err = NIL /\ ~r.panic THEN 1 ELSE 0
    /\ pending' = Len(sc.reqs)
    /\ args' = <<>>
    /\ UNCHANGED <<opts, peer>>

Query == QueryWith(SearchNets(1, sc.conn # NoConn))

OpenNets(connected) == ConnectNets(connected) \cup {NetFail("none"), NetFail("write")}

Open ==
    /\ ~panicked
    /\ \E net \in OpenNets(sc.conn # NoConn) :
         \E r \in {open(opts, sc, sock, net)} :
             /\ sc' = r.sc
             /\ sock' = r.sock
             /\ ret' = Returned("Open", r.err, NIL, -1, NIL, NIL)
             /\ io' = r.io
             /\ sent' = r.sent
    /\ pending' = Len(sc.reqs)
    /\ replied' = <<>>
    /\ afterQuery' = 0
    /\ args' = <<>>
    /\ response' = <<>>
    /\ envelope' = -1
    /\ race' = race
    /\ retried' = retried
    /\ UNCHANGED <<opts, added, panicked, peer>>

Close ==
    /\ ~panicked
    /\ \E closeOk \in BOOLEAN :
         \E r \in {close(sc, sock, closeOk)} :
             /\ sc' = r.sc
             /\ sock' = r.sock
             /\ ret' = Returned("Close", r.err, NIL, -1, NIL, NIL)
             /\ io' = r.io
    /\ pending' = Len(sc.reqs)
    /\ sent' = <<>>
    /\ replied' = <<>>
    /\ afterQuery' = 0
    /\ args' = <<>>
    /\ response' = <<>>
    /\ envelope' = -1
    /\ race' = race
    /\ retried' = retried
    /\ UNCHANGED <<opts, added, panicked, peer>>

Next == AddQuery \/ RunQueries \/ Query \/ Open \/ Close

Spec == Init /\ [][Next]_vars

(*********************** a caller that also configures *********************)
\* a setter called with the arguments a has returned r = [opts, sc]; setters
\* return nothing to the caller
Configured(op, a, r) ==
    /\ ~panicked
    /\ opts' = r.opts
    /\ sc' = r.sc
    /\ args' = a
    /\ response' = <<>>
    /\ envelope' = -1
    /\ race' = race
    /\ retried' = retried
    /\ ret' = Returned(op, NIL, NIL, -1, NIL, NIL)
    /\ pending' = Len(sc.reqs)
    /\ io' = <<>>
    /\ sent' = <<>>
    /\ replied' = <<>>
    /\ afterQuery' = 0
    /\ UNCHANGED <<sock, added, panicked, peer>>

\* <<offset, limit, maxMatches, cutoff>>: a negative offset, a limit of zero, no
\* maxMatches, a negative cutoff, a valid call
LimitsArgs ==
    {<<-1, 20, 1000, 0>>, <<0, 0, 1000, 0>>, <<0, 10, 0, 0>>, <<0, 10, 1000, -1>>,
     <<0, 10, 1000, 0>>}

CallSetLimits ==
    \E a \in LimitsArgs : Configured("SetLimits", a, SetLimits(opts, sc, a[1], a[2], a[3], a[4]))

CallSetSelect ==
    \E str \in {NIL, StrStar} : Configured("SetSelect", <<str>>, SetSelect(opts, sc, str))

CallSetMatchMode ==
    \E mode \in {SPH_MATCH_EXTENDED2 + 1, SPH_MATCH_EXTENDED} :
        Configured("SetMatchMode", <<mode>>, SetMatchMode(opts, sc, mode))

\* <<attr, umin, umax>>: an empty name, min > max, a valid range
FilterRangeArgs == {<<NIL, 1, 2>>, <<StrGroupId, 2, 1>>, <<StrGroupId, 1, 2>>}

CallSetFilterRange ==
    /\ Len(sc.filters) < MaxFilters
    /\ \E a \in FilterRangeArgs :
         Configured("SetFilterRange", a, SetFilterRange(opts, sc, a[1], a[2], a[3], FALSE))

\* the network of this caller: the dial fails, or every query is answered
CfgNets(n, connected) ==
    (IF connected THEN {} ELSE {NetFail("dial")})
    \cup {NetReply(SEARCHD_OK, WireReply(<<>>, AllOk(n)), AllOk(n))}

RunQueriesCfg == RunQueriesWith(CfgNets(Len(sc.reqs), sc.conn # NoConn))

QueryCfg == QueryWith(CfgNets(1, sc.conn # NoConn))

NextCfg ==
    \/ CallSetLimits
    \/ CallSetSelect
    \/ CallSetMatchMode
    \/ CallSetFilterRange
    \/ AddQuery
    \/ RunQueriesCfg
    \/ QueryCfg

SpecCfg == Init /\ [][NextCfg]_vars

(******************** a caller that configures and resets ******************)
\* <<groupBy, groupFunc, groupSort>>: an unknown function, a valid call
CallSetGroupBy ==
    \E a \in {<<StrGroupId, SPH_GROUPBY_ATTRPAIR + 1, StrGroupDesc>>,
               <<StrGroupId, SPH_GROUPBY_ATTR, StrGroupDesc>>} :
        Configured("SetGroupBy", a, SetGroupBy(opts, sc, a[1], a[2], a[3]))

CallResetFilters == Configured("ResetFilters", <<>>, ResetFilters(opts, sc))

CallResetGroupBy == Configured("ResetGroupBy", <<>>, ResetGroupBy(opts, sc))

\* the caller queues one and the same query, so that two queued requests
\* differ only by the configuration they were encoded under
NextSnap ==
    \/ CallSetFilterRange
    \/ CallSetGroupBy
    \/ CallResetFilters
    \/ CallResetGroupBy
    \/ (AddQuery /\ ret'.q = StrTest)
    \/ RunQueriesCfg

SpecSnap == Init /\ [][NextSnap]_vars

(************************ a caller of every validating setter **************)
\* a weight of zero, a valid map
WeightArgs == {<<<<StrTitle, 0>>>>, <<<<StrTitle, 3>>, <<StrGroupId, 1>>>>}

CallSetFieldWeights ==
    \E w \in WeightArgs : Configured("SetFieldWeights", <<w>>, SetFieldWeights(opts, sc, w))

CallSetIndexWeights ==
    \E w \in WeightArgs : Configured("SetIndexWeights", <<w>>, SetIndexWeights(opts, sc, w))

CallSetIDRange ==
    \E a \in {<<2, 1>>, <<1, 2>>, <<3, 3>>} :
        Configured("SetIDRange", a, SetIDRange(opts, sc, a[1], a[2]))

\* <<attr, values>>: no name, no values, a valid call
CallSetFilter ==
    /\ Len(sc.filters) < MaxFilters
    /\ \E a \in {<<NIL, <<1>>>>, <<StrGroupId, <<>>>>, <<StrGroupId, <<3, 4>>>>} :
         Configured("SetFilter", a, SetFilter(opts, sc, a[1], a[2], TRUE))

\* <<attr, fmin, fmax>>: no name, min > max, valid ranges, a NaN as a bound
FloatRangeArgs ==
    {<<NIL, F32Zero, F32One>>, <<StrGroupId, F32One, F32Zero>>, <<StrGroupId, F32Zero, F32One>>,
     <<StrGroupId, F32MinusOne, F32MinusOne>>, <<StrGroupId, F32NaN, F32One>>,
     <<StrGroupId, F32Zero, F32NaN>>}

CallSetFilterFloatRange ==
    /\ Len(sc.filters) < MaxFilters
    /\ \E a \in FloatRangeArgs :
         Configured("SetFilterFloatRange", a,
                    SetFilterFloatRange(opts, sc, a[1], a[2], a[3], FALSE))

NextInv ==
    \/ CallSetLimits
    \/ CallSetIDRange
    \/ CallSetFieldWeights
    \/ CallSetIndexWeights
    \/ CallSetFilter
    \/ CallSetFilterRange
    \/ CallSetFilterFloatRange
    \/ CallResetFilters

SpecInv == Init /\ [][NextInv]_vars

(******************** a caller of the filters and the anchor ***************)
\* one accepted call of each filter setter, and one without a name
FilterCalls(max) ==
    /\ Len(sc.filters) < max
    /\ \/ \E a \in {<<NIL, <<1>>, FALSE>>, <<StrGroupId, <<3, 4>>, TRUE>>} :
            Configured("SetFilter", a, SetFilter(opts, sc, a[1], a[2], a[3]))
       \/ Configured("SetFilterRange", <<StrTitle, 1, 2, FALSE>>,
                     SetFilterRange(opts, sc, StrTitle, 1, 2, FALSE))
       \/ Configured("SetFilterFloatRange", <<StrGroupId, F32MinusOne, F32One, TRUE>>,
                     SetFilterFloatRange(opts, sc, StrGroupId, F32MinusOne, F32One, TRUE))

\* <<latitudeAttr, longitudeAttr, latitude, longitude>>: a name is missing, a
\* valid anchor
CallSetGeoAnchor ==
    \E a \in {<<StrTitle, NIL, F32One, F32One>>,
               <<StrTitle, StrGroupId, F32One, F32MinusOne>>} :
        Configured("SetGeoAnchor", a, SetGeoAnchor(opts, sc, a[1], a[2], a[3], a[4]))

NextGeo ==
    \/ FilterCalls(MaxKept)
    \/ CallSetGeoAnchor
    \/ CallResetFilters
    \/ (sc.reqs = <<>> /\ AddQuery /\ ret'.q = StrTest)
    \/ RunQueriesCfg

SpecGeo == Init /\ [][NextGeo]_vars

(************************* a daemon of typed answers ***********************)
\* the replies w of the blocks bs with the end missing, one per length
Prefixes(w, bs) == {NetReply(SEARCHD_OK, SubSeq(w, 1, k), bs) : k \in 1..(Len(w) - 1)}

\* What the network does to a search of n queries here: the typed answer to
\* every query, the typed answer with a warning, an error or an empty answer
\* in front of it, and the typed answers cut short at every length.
DecNets(n) ==
    {NetReply(SEARCHD_OK, WireReply(<<>>, bs), bs) :
        bs \in {[i \in 1..n |-> IF i = 1 /\ n > 1 THEN b ELSE BlockTyped] :
                  b \in {BlockTyped, BlockWarn, BlockError}}}
    \cup Prefixes(WireReply(<<>>, [i \in 1..n |-> BlockTyped]), [i \in 1..n |-> BlockTyped])

NextDec == AddQuery \/ RunQueriesWith(DecNets(Len(sc.reqs)))

SpecDec == Init /\ [][NextDec]_vars

(************************** a caller with overrides ************************)
\* <<attrName, attrType, values>>: values of the declared kind, a float32 and
\* a uint64 declared INTEGER, an int declared FLOAT, a type AddQuery has no
\* case for, a type SetOverride rejects, an empty name
CallSetOverride ==
    /\ ~panicked
    /\ \E a \in
           {<<StrGroupId, SPH_ATTR_INTEGER, <<<<5, [kind |-> "int", val |-> 3]>>>>>>,
            <<StrGroupId, SPH_ATTR_FLOAT, <<<<5, [kind |-> "float32", val |-> F32Zero]>>>>>>,
            <<StrGroupId, SPH_ATTR_BIGINT, <<<<5, [kind |-> "uint64", val |-> 9]>>>>>>,
            <<StrGroupId, SPH_ATTR_INTEGER,
              <<<<5, [kind |-> "int", val |-> 3]>>, <<6, [kind |-> "float32", val |-> F32Zero]>>>>>>,
            <<StrGroupId, SPH_ATTR_INTEGER, <<<<5, [kind |-> "uint64", val |-> 9]>>>>>>,
            <<StrGroupId, SPH_ATTR_FLOAT, <<<<5, [kind |-> "int", val |-> 3]>>>>>>,
            <<StrGroupId, SPH_ATTR_STRING, <<<<5, [kind |-> "int", val |-> 3]>>>>>>,
            <<StrGroupId, SPH_ATTR_MULTI64, <<<<5, [kind |-> "int", val |-> 3]>>>>>>,
            <<NIL, SPH_ATTR_INTEGER, <<>>>>} :
         \E r \in {SetOverride(sc, a[1], a[2], a[3])} :
             /\ sc' = r.sc
             /\ panicked' = r.panic
             /\ args' = a
    /\ ret' = Returned("SetOverride", NIL, NIL, -1, NIL, NIL)
    /\ pending' = Len(sc.reqs)
    /\ io' = <<>>
    /\ sent' = <<>>
    /\ replied' = <<>>
    /\ response' = <<>>
    /\ envelope' = -1
    /\ race' = race
    /\ retried' = retried
    /\ afterQuery' = 0
    /\ UNCHANGED <<opts, sock, added, peer>>

\* The client of NewClient() has a nil map of overrides.  Only code of the
\* package can make the map (the field is not exported); both clients start here.
InitOvr ==
    /\ opts = DefaultOptions
    /\ sc \in {NewClient, [NewClient EXCEPT !.overridesNil = FALSE]}
    /\ sock = NoSock
    /\ ret = Returned("NewClient", NIL, NIL, -1, NIL, NIL)
    /\ io = <<>>
    /\ sent = <<>>
    /\ replied = <<>>
    /\ added = <<>>
    /\ pending = 0
    /\ afterQuery = 0
    /\ panicked = FALSE
    /\ args = <<>>
    /\ response = <<>>
    /\ envelope = -1
    /\ race = NoRace
    /\ retried = 0
    /\ peer = NewClient

NextOvr == CallSetOverride \/ CallSetLimits \/ AddQuery

SpecOvr == InitOvr /\ [][NextOvr]_vars

(****************************** a second client ****************************)
\* Both clients come from NewClient(), which stores the pointer DefaultOptions
\* in each: `opts` is the one Options object both point to, `sc` and `peer` are
\* the fields each client has of its own.
\* <<mode, sortBy>>: a mode that needs a clause and has none, a valid call
CallSetSortMode ==
    \E a \in {<<SPH_SORT_ATTR_DESC, NIL>>, <<SPH_SORT_ATTR_DESC, StrGroupId>>} :
        Configured("SetSortMode", a, SetSortMode(opts, sc, a[1], a[2]))

\* the second client has called an operation that returned r = [opts, sc]
PeerReturned(op, a, r) ==
    /\ ~panicked
    /\ opts' = r.opts
    /\ peer' = r.sc
    /\ ret' = Returned(op, NIL, NIL, -1, NIL, NIL)
    /\ args' = a
    /\ pending' = Len(sc.reqs)
    /\ io' = <<>>
    /\ sent' = <<>>
    /\ replied' = <<>>
    /\ response' = <<>>
    /\ envelope' = -1
    /\ race' = race
    /\ retried' = retried
    /\ afterQuery' = 0
    /\ UNCHANGED <<sc, sock, added, panicked>>

PeerSetLimits ==
    \E a \in LimitsArgs :
        PeerReturned("peer.SetLimits", a, SetLimits(opts, peer, a[1], a[2], a[3], a[4]))

PeerAddQuery ==
    /\ Len(peer.reqs) < MaxQueue
    /\ \E q \in Queries :
         PeerReturned("peer.AddQuery", <<>>,
                      [opts |-> opts, sc |-> addQuery(opts, peer, q, StrIndex, NIL).sc])

\* <<host, port>>: the defaults, a host and a port, a host alone, a port
\* alone, another host and port, the path of a unix socket, a unix:// address
ServerArgs ==
    {<<NIL, 0>>, <<StrH, 5>>, <<StrH, 0>>, <<NIL, 5>>, <<NIL, -1>>, <<StrTest, 7>>,
     <<StrSockPath, 0>>, <<StrUnix \o StrSockPath, 5>>}

CallSetServer ==
    \E a \in ServerArgs : Configured("SetServer", a, SetServer(opts, sc, a[1], a[2]))

PeerSetServer ==
    \E a \in ServerArgs : PeerReturned("peer.SetServer", a, SetServer(opts, peer, a[1], a[2]))

NextSrv == CallSetServer \/ PeerSetServer

SpecSrv == Init /\ [][NextSrv]_vars

NextTwo ==
    \/ CallSetLimits
    \/ CallSetSortMode
    \/ CallSetFilterRange
    \/ PeerSetLimits
    \/ PeerAddQuery

SpecTwo == Init /\ [][NextTwo]_vars

(****************************** other commands *****************************)
StrB == <<60, 98, 62>>                                          \* "<b>"
StrBEnd == <<60, 47, 98, 62>>                                   \* "</b>"
StrDots == <<46, 46, 46>>                                       \* "..."
StrIndexMode == <<105, 110, 100, 101, 120>>                     \* "index"
StrSentence == <<115, 101, 110, 116, 101, 110, 99, 101>>        \* "sentence"
StrParagraph == <<112, 97, 114, 97, 103, 114, 97, 112, 104>>    \* "paragraph"
StrZone == <<122, 111, 110, 101>>                               \* "zone"

\* SetRetries returns the Options and the client fields after the call
SetRetries(o, c, count, delay) ==
    IF count < 0
      THEN [opts |-> o, sc |-> [c EXCEPT !.err = Err("SetRetries > count must not be negative")]]
    ELSE IF delay < 0
      THEN [opts |-> o, sc |-> [c EXCEPT !.err = Err("SetRetries > delay must not be negative")]]
    ELSE [opts |-> [o EXCEPT !.RetryCount = count, !.RetryDelay = delay], sc |-> c]

\* What a command returns to its action: the client fields, the socket, the
\* value (results, and i for a count), the error, the network calls and frames,
\* and whether a panic left the command.
\* a command that returns before doRequest
Rejected(c, s, i, err) ==
    [sc |-> c, sock |-> s, results |-> NIL, i |-> i, io |-> <<>>, sent |-> <<>>,
     panic |-> FALSE, err |-> err]

\* a command that returns after doRequest has returned dr
Requested(dr, results, i, err, panic) ==
    [sc |-> dr.sc, sock |-> dr.sock, results |-> results, i |-> i, io |-> dr.io,
     sent |-> dr.sent, panic |-> panic, err |-> err]

\* ExcerptsOpts with every field at its zero value
ExcerptsOpts ==
    [BeforeMatch |-> NIL, AfterMatch |-> NIL, ChunkSeparator |-> NIL, Limit |-> 0, Around |-> 0,
     ExactPhrase |-> FALSE, SinglePassage |-> FALSE, UseBoundaries |-> FALSE,
     WeightOrder |-> FALSE, QueryMode |-> FALSE, ForceAllWords |-> FALSE, LimitPassages |-> 0,
     LimitWords |-> 0, StartPassageId |-> 0, LoadFiles |-> FALSE, LoadFilesScattered |-> FALSE,
     HtmlStripMode |-> NIL, AllowEmpty |-> FALSE, PassageBoundary |-> NIL, EmitZones |-> FALSE]

\* the default values BuildExcerpts puts in place of zero values
ExcerptsDefaults(eo) ==
    [eo EXCEPT !.BeforeMatch = IF @ = NIL THEN StrB ELSE @,
               !.AfterMatch = IF @ = NIL THEN StrBEnd ELSE @,
               !.ChunkSeparator = IF @ = NIL THEN StrDots ELSE @,
               !.HtmlStripMode = IF @ = NIL THEN StrIndexMode ELSE @,
               !.Limit = IF @ = 0 THEN 256 ELSE @,
               !.Around = IF @ = 0 THEN 5 ELSE @,
               !.StartPassageId = IF @ = 0 THEN 1 ELSE @]

\* iFlags: 1 (remove_spaces) with one bit set per option; AllowEmpty and
\* EmitZones set the same bit, 256
ExcerptsFlags(eo) ==
    1 + (IF eo.ExactPhrase THEN 2 ELSE 0) + (IF eo.SinglePassage THEN 4 ELSE 0)
      + (IF eo.UseBoundaries THEN 8 ELSE 0) + (IF eo.WeightOrder THEN 16 ELSE 0)
      + (IF eo.QueryMode THEN 32 ELSE 0) + (IF eo.ForceAllWords THEN 64 ELSE 0)
      + (IF eo.LoadFiles THEN 128 ELSE 0) + (IF eo.AllowEmpty \/ eo.EmitZones THEN 256 ELSE 0)

\* the request of BuildExcerpts, eo being the options with the defaults in place
ExcerptsRequest(docs, index, words, eo) ==
    LET r1 == writeInt32ToBytes(writeInt32ToBytes(<<>>, 0), ExcerptsFlags(eo))
        r2 == writeLenStrToBytes(writeLenStrToBytes(r1, index), words)
        r3 == writeLenStrToBytes(writeLenStrToBytes(writeLenStrToBytes(r2, eo.BeforeMatch),
                                                    eo.AfterMatch), eo.ChunkSeparator)
        r4 == writeInt32ToBytes(writeInt32ToBytes(writeInt32ToBytes(r3, eo.Limit), eo.Around),
                                eo.LimitPassages)
        r5 == writeInt32ToBytes(writeInt32ToBytes(r4, eo.LimitWords), eo.StartPassageId)
        r6 == writeLenStrToBytes(writeLenStrToBytes(r5, eo.HtmlStripMode), eo.PassageBoundary)
    IN  WireStrings(writeInt32ToBytes(r6, Len(docs)), docs)

\* BuildExcerpts after doRequest has returned dr: d is the run of len(docs)
\* bp.String() reads, which no recover covers
ExcerptsRead(dr, d) ==
    IF ~d.bp.ok THEN Requested(dr, NIL, -1, NIL, TRUE) ELSE Requested(dr, d.v, -1, NIL, FALSE)

\* the mutant of ExcerptsDecoded: the excerpts are returned last first
ExcerptsDecodedReversed(dr, ndocs) ==
    IF dr.err # NIL THEN Requested(dr, NIL, -1, dr.err, FALSE)
    ELSE [ExcerptsRead(dr, DecodeStrings(Start(NewParser(dr.res)), ndocs)) EXCEPT
            !.results = [k \in 1..Len(@) |-> @[Len(@) + 1 - k]]]

ExcerptsDecoded(dr, ndocs) ==
    IF dr.err # NIL THEN Requested(dr, NIL, -1, dr.err, FALSE)
    ELSE ExcerptsRead(dr, DecodeStrings(Start(NewParser(dr.res)), ndocs))

BuildExcerpts(o, c, s, docs, index, words, eo, net) ==
    IF Len(docs) = 0
      THEN Rejected(c, s, -1, Err("BuildExcerpts > Have no documents to process!"))
    ELSE IF index = NIL
      THEN Rejected(c, s, -1, Err("BuildExcerpts > index name is empty!"))
    ELSE IF words = NIL
      THEN Rejected(c, s, -1, Err("BuildExcerpts > Have no words to highlight!"))
    ELSE IF eo.PassageBoundary \notin {NIL, StrSentence, StrParagraph, StrZone}
      THEN Rejected(c, s, -1, Err("BuildExcerpts > PassageBoundary allowed values"))
    ELSE ExcerptsDecoded(doRequest(o, c, s, SEARCHD_COMMAND_EXCERPT, VER_COMMAND_EXCERPT,
                                   ExcerptsRequest(docs, index, words, ExcerptsDefaults(eo)),
                                   net),
                         Len(docs))

\* one element of a row of UpdateAttributes behind the doc id; x = [req, err]
UpdateValue(x, mva, e) ==
    IF mva
      THEN IF e.kind # "[]int"
             THEN [x EXCEPT !.err = Err("UpdateAttributes > must be []int in mva mode")]
             ELSE [x EXCEPT !.req = WireDwords(writeInt32ToBytes(@, Len(e.val)), e.val)]
      ELSE IF e.kind # "int"
             THEN [x EXCEPT !.err = Err("UpdateAttributes > must be int if not in mva mode")]
             ELSE [x EXCEPT !.req = writeInt32ToBytes(@, e.val)]

RECURSIVE UpdateValues(_, _, _)
UpdateValues(x, mva, es) ==
    IF es = <<>> \/ x.err # NIL THEN x ELSE UpdateValues(UpdateValue(x, mva, Head(es)), mva, Tail(es))

\* the rows: the doc id, which must be a uint64, then the values
RECURSIVE UpdateRows(_, _, _)
UpdateRows(x, mva, rows) ==
    IF rows = <<>> \/ x.err # NIL THEN x
    ELSE IF Head(rows)[1].kind # "uint64"
      THEN [x EXCEPT !.err = Err("UpdateAttributes > docId must be uint64")]
    ELSE UpdateRows(UpdateValues([x EXCEPT !.req = writeInt64ToBytes(@, Head(rows)[1].val)],
                                 mva, Tail(Head(rows))),
                    mva, Tail(rows))

RECURSIVE UpdateAttrs(_, _, _)
UpdateAttrs(req, mva, attrs) ==
    IF attrs = <<>> THEN req
    ELSE UpdateAttrs(writeInt32ToBytes(writeLenStrToBytes(req, Head(attrs)),
                                       IF mva THEN 1 ELSE 0), mva, Tail(attrs))

\* the request of UpdateAttributes, [req, err], for rows of the right length
UpdateRequest(index, attrs, values, ignorenonexistent, mva) ==
    LET r1 == writeInt32ToBytes(writeLenStrToBytes(<<>>, index), Len(attrs))
        r2 == IF VER_COMMAND_UPDATE > 258
                THEN writeInt32ToBytes(r1, IF ignorenonexistent THEN 1 ELSE 0)
                ELSE r1
        r3 == writeInt32ToBytes(UpdateAttrs(r2, mva, attrs), Len(values))
    IN  UpdateRows([req |-> r3, err |-> NIL], mva, values)

\* UpdateAttributes after doRequest has returned dr: response[0:4] is read
\* without a look at the length, and no recover covers it
UpdateDecoded(dr) ==
    IF dr.err # NIL THEN Requested(dr, NIL, -1, dr.err, FALSE)
    ELSE IF Len(dr.res) < 4 THEN Requested(dr, NIL, -1, NIL, TRUE)
    ELSE Requested(dr, NIL, BigEndian(dr.res, 0, 4), NIL, FALSE)

\* UpdateAttributes once the request x = [req, err] is built
UpdateSend(o, c, s, x, net) ==
    IF x.err # NIL THEN Rejected(c, s, -1, x.err)
    ELSE UpdateDecoded(doRequest(o, c, s, SEARCHD_COMMAND_UPDATE, VER_COMMAND_UPDATE, x.req,
                                 net))

\* the mutant of UpdateAttributes: the lengths of the rows are not compared
UpdateAttributesAnyLength(o, c, s, index, attrs, values, ignorenonexistent, net) ==
    IF index = NIL
      THEN Rejected(c, s, -1, Err("UpdateAttributes > index name is empty!"))
    ELSE IF Len(attrs) = 0
      THEN Rejected(c, s, -1, Err("UpdateAttributes > no attribute names provided!"))
    ELSE IF Len(values) < 1
      THEN Rejected(c, s, -1, Err("UpdateAttributes > no update values provided!"))
    ELSE UpdateSend(o, c, s,
                    UpdateRequest(index, attrs, values, ignorenonexistent,
                                  values[1][2].kind = "[]int"),
                    net)

UpdateAttributes(o, c, s, index, attrs, values, ignorenonexistent, net) ==
    IF index = NIL
      THEN Rejected(c, s, -1, Err("UpdateAttributes > index name is empty!"))
    ELSE IF Len(attrs) = 0
      THEN Rejected(c, s, -1, Err("UpdateAttributes > no attribute names provided!"))
    ELSE IF Len(values) < 1
      THEN Rejected(c, s, -1, Err("UpdateAttributes > no update values provided!"))
    ELSE IF \E k \in 1..Len(values) : Len(values[k]) # Len(attrs) + 1
      THEN Rejected(c, s, -1, Err("UpdateAttributes > update entry has wrong length"))
    ELSE UpdateSend(o, c, s,
                    UpdateRequest(index, attrs, values, ignorenonexistent,
                                  values[1][2].kind = "[]int"),
                    net)

\* one Keyword read from x.bp and appended to x.v: <<Tokenized, Normalized, Docs,
\* Hits>>, or <<Tokenized, Normalized>> when Docs and Hits are left at 0
KeywordRead(x, hits) ==
    IF hits
      THEN Pushed(x.v, thenInt32(thenInt32(thenString(thenString(Start(x.bp))))))
      ELSE Pushed(x.v, thenString(thenString(Start(x.bp))))

RECURSIVE DecodeKeywords(_, _, _)
DecodeKeywords(x, n, hits) ==
    IF n <= 0 \/ ~x.bp.ok THEN x ELSE DecodeKeywords(KeywordRead(x, hits), n - 1, hits)

\* BuildKeywords after doRequest: nwords, then the keywords; no recover covers the reads
KeywordsDecoded(dr, n, hits) ==
    IF ~DecodeKeywords(Start(n.bp), n.v, hits).bp.ok THEN Requested(dr, NIL, -1, NIL, TRUE)
    ELSE Requested(dr, DecodeKeywords(Start(n.bp), n.v, hits).v, -1, NIL, FALSE)

BuildKeywordsOn(dr, hits) ==
    IF dr.err # NIL THEN Requested(dr, NIL, -1, dr.err, FALSE)
    ELSE KeywordsDecoded(dr, bpInt32(NewParser(dr.res)), hits)

BuildKeywords(o, c, s, query, index, hits, net) ==
    BuildKeywordsOn(doRequest(o, c, s, SEARCHD_COMMAND_KEYWORDS, VER_COMMAND_KEYWORDS,
                              writeInt32ToBytes(writeLenStrToBytes(writeLenStrToBytes(<<>>,
                                  query), index), IF hits THEN 1 ELSE 0),
                              net),
                    hits)

\* Status after doRequest has returned dr: rc is the read of rows and cols, d
\* the run of rows * cols bp.String() reads, row by row; no recover covers them
StatusDecoded(dr, rc, d) ==
    IF ~d.bp.ok THEN Requested(dr, NIL, -1, NIL, TRUE)
    ELSE Requested(dr, [i \in 1..rc[1] |-> [j \in 1..rc[2] |-> d.v[(i - 1) * rc[2] + j]]],
                   -1, NIL, FALSE)

StatusRead(dr, rc) ==
    IF ~rc.bp.ok THEN Requested(dr, NIL, -1, NIL, TRUE)
    ELSE StatusDecoded(dr, rc.v, DecodeStrings(Start(rc.bp), rc.v[1] * rc.v[2]))

StatusOn(dr) ==
    IF dr.err # NIL THEN Requested(dr, NIL, -1, dr.err, FALSE)
    ELSE StatusRead(dr, thenUint32(thenUint32(Start(NewParser(dr.res)))))

Status(o, c, s, net) ==
    StatusOn(doRequest(o, c, s, SEARCHD_COMMAND_STATUS, VER_COMMAND_STATUS,
                       writeInt32ToBytes(<<>>, 1), net))

FlushAttributesOn(dr) ==
    IF dr.err # NIL THEN Requested(dr, NIL, -1, dr.err, FALSE)
    ELSE IF Len(dr.res) # 4
      THEN Requested(dr, NIL, -1, Err("FlushAttributes > unexpected response length!"), FALSE)
    ELSE Requested(dr, NIL, BigEndian(dr.res, 0, 4), NIL, FALSE)

FlushAttributes(o, c, s, net) ==
    FlushAttributesOn(doRequest(o, c, s, SEARCHD_COMMAND_FLUSHATTRS, VER_COMMAND_FLUSHATTRS,
                                <<>>, net))

(************************ a caller of every command ************************)
\* a command called with the arguments a has returned r
Commanded(op, a, r, net) ==
    /\ sc' = r.sc
    /\ sock' = r.sock
    /\ ret' = Returned(op, r.err, r.results, r.i, NIL, NIL)
    /\ io' = r.io
    /\ sent' = r.sent
    /\ response' = Received(r, net)
    /\ envelope' = IF Received(r, net) # <<>> THEN net.status ELSE -1
    /\ race' = race
    /\ retried' = retried
    /\ panicked' = r.panic
    /\ args' = a
    /\ pending' = Len(sc.reqs)
    /\ replied' = <<>>
    /\ afterQuery' = 0
    /\ UNCHANGED <<opts, added, peer>>

\* What the network does to a command whose answer is `body`: a failure of
\* the dial, a transport failure, the answer, the answer cut short by two
\* bytes, the answer behind a warning, an error and an unknown status.
ReplyNets(body, connected) ==
    (IF connected THEN {} ELSE {NetFail("dial")})
    \cup {NetFail(f) : f \in CommandFailPoints}
    \cup {NetReply(SEARCHD_OK, body, <<>>), CutShort(SEARCHD_OK, body, <<>>),
          NetReply(SEARCHD_WARNING, writeLenStrToBytes(<<>>, StrWarn) \o body, <<>>),
          NetReply(SEARCHD_ERROR, writeLenStrToBytes(<<>>, StrOops), <<>>),
          NetReply(4, body, <<>>)}

\* <<count, delay>>
CallSetRetries ==
    \E a \in {<<-1, 0>>, <<2, -1>>, <<2, 3>>} :
        Configured("SetRetries", a, SetRetries(opts, sc, a[1], a[2]))

\* the excerpt the daemon makes of a document
Excerpt(doc) == StrB \o doc

\* <<docs, index, words, PassageBoundary>>: no documents, no index, no words, a
\* boundary that is not allowed, and calls that are valid
ExcerptsArgs ==
    {<<<<>>, StrIndex, StrTest, NIL>>, <<<<StrMy>>, NIL, StrTest, NIL>>,
     <<<<StrMy>>, StrIndex, NIL, NIL>>, <<<<StrMy>>, StrIndex, StrTest, StrTitle>>,
     <<<<StrMy, StrTest>>, StrIndex, StrTest, NIL>>,
     <<<<StrMy, NIL, StrTest>>, StrIndex, StrTest, StrZone>>}

BuildExcerptsOf(calls) ==
    /\ ~panicked
    /\ \E a \in calls :
         \E net \in ReplyNets(WireStrings(<<>>, [k \in 1..Len(a[1]) |-> Excerpt(a[1][k])]),
                               sc.conn # NoConn) :
           Commanded("BuildExcerpts", a,
                     BuildExcerpts(opts, sc, sock, a[1], a[2], a[3],
                                   [ExcerptsOpts EXCEPT !.PassageBoundary = a[4]], net),
                     net)

\* <<index, attrs, values>>: no index, no attributes, no rows, a row too long,
\* a doc id that is an int, a []int among ints, an int among []ints, a string,
\* and two valid calls, one of each mode
UpdateArgs ==
    LET id(v) == [kind |-> "uint64", val |-> v]
        int(v) == [kind |-> "int", val |-> v]
        ints(v) == [kind |-> "[]int", val |-> v]
    IN  {<<NIL, <<StrGroupId>>, <<<<id(1), int(3)>>>>>>,
         <<StrIndex, <<>>, <<<<id(1)>>>>>>,
         <<StrIndex, <<StrGroupId>>, <<>>>>,
         <<StrIndex, <<StrGroupId>>, <<<<id(1), int(3)>>, <<id(2), int(4), int(5)>>>>>>,
         <<StrIndex, <<StrGroupId>>, <<<<id(1), int(3)>>, <<int(2), int(4)>>>>>>,
         <<StrIndex, <<StrGroupId>>, <<<<id(1), int(3)>>, <<id(2), ints(<<4>>)>>>>>>,
         <<StrIndex, <<StrGroupId>>, <<<<id(1), ints(<<3>>)>>, <<id(2), int(4)>>>>>>,
         <<StrIndex, <<StrGroupId>>, <<<<id(1), [kind |-> "string", val |-> StrMy]>>>>>>,
         <<StrIndex, <<StrGroupId, StrTitle>>, <<<<id(1), int(3), int(15)>>,
                                                 <<id(2), int(4), int(16)>>>>>>,
         <<StrIndex, <<StrGroupId>>, <<<<id(1), ints(<<3, 4>>)>>>>>>}

UpdateAttributesOf(calls) ==
    /\ ~panicked
    /\ \E a \in calls :
         \E net \in ReplyNets(writeInt32ToBytes(<<>>, Len(a[3])), sc.conn # NoConn) :
           Commanded("UpdateAttributes", a,
                     UpdateAttributes(opts, sc, sock, a[1], a[2], a[3], FALSE, net), net)

\* the daemon's answer to BuildKeywords: one keyword, with or without its counts
CallBuildKeywords ==
    /\ ~panicked
    /\ \E hits \in BOOLEAN :
         \E net \in ReplyNets(
                      writeInt32ToBytes(<<>>, 1) \o writeLenStrToBytes(<<>>, StrMy)
                          \o writeLenStrToBytes(<<>>, StrTest)
                          \o (IF hits THEN writeInt32ToBytes(writeInt32ToBytes(<<>>, 4), 7)
                                      ELSE <<>>),
                      sc.conn # NoConn) :
           Commanded("BuildKeywords", <<StrMy, StrIndex, hits>>,
                     BuildKeywords(opts, sc, sock, StrMy, StrIndex, hits, net), net)

\* the daemon's answer to Status: two rows of two columns
CallStatus ==
    /\ ~panicked
    /\ \E net \in ReplyNets(
                    WireStrings(writeInt32ToBytes(writeInt32ToBytes(<<>>, 2), 2),
                                <<StrTest, StrMy, StrIndex, StrWarn>>),
                    sc.conn # NoConn) :
         Commanded("Status", <<>>, Status(opts, sc, sock, net), net)

\* the daemon's answer to FlushAttributes: the flush tag
CallFlushAttributes ==
    /\ ~panicked
    /\ \E net \in ReplyNets(writeInt32ToBytes(<<>>, 6), sc.conn # NoConn) :
         Commanded("FlushAttributes", <<>>, FlushAttributes(opts, sc, sock, net), net)

\* A caller of the seven commands that send a request, one call of each, with
\* batches of one query, on a client whose retry settings change.
NextCmd ==
    \/ CallSetRetries
    \/ (sc.reqs = <<>> /\ AddQuery)
    \/ RunQueriesWith(ReplyNets(WireReply(<<>>, AllOk(Len(sc.reqs))), sc.conn # NoConn))
    \/ QueryWith(ReplyNets(WireReply(<<>>, AllOk(1)), sc.conn # NoConn))
    \/ BuildExcerptsOf({<<<<StrMy, StrTest>>, StrIndex, StrTest, NIL>>})
    \/ UpdateAttributesOf({<<StrIndex, <<StrGroupId>>,
                             <<<<[kind |-> "uint64", val |-> 1], [kind |-> "int", val |-> 3]>>>>>>})
    \/ CallBuildKeywords
    \/ CallStatus
    \/ CallFlushAttributes

SpecCmd == Init /\ [][NextCmd]_vars

\* a caller of BuildExcerpts, and one of UpdateAttributes, with calls of every kind
NextExc == BuildExcerptsOf(ExcerptsArgs) \/ Close

SpecExc == Init /\ [][NextExc]_vars

NextUpd == UpdateAttributesOf(UpdateArgs) \/ Close

SpecUpd == Init /\ [][NextUpd]_vars

(******************* a caller whose calls are mostly rejected ***************)
\* every setter that validates is called with arguments it rejects; a few are
\* also called with arguments they accept, so that there are settings to keep
RejSetRetries ==
    \E a \in {<<-1, 0>>, <<2, -1>>} :
        Configured("SetRetries", a, SetRetries(opts, sc, a[1], a[2]))

RejSetConnectTimeout ==
    \E a \in {<<-1>>, <<5>>} :
        Configured("SetConnectTimeout", a, SetConnectTimeout(opts, sc, a[1]))

\* <<offset, limit, maxMatches, cutoff>>
RejSetLimits ==
    \E a \in {<<-1, 1, 1, 0>>, <<0, 0, 1, 0>>, <<0, 1, 0, 0>>, <<0, 1, 1, -1>>} :
        Configured("SetLimits", a, SetLimits(opts, sc, a[1], a[2], a[3], a[4]))

RejSetMaxQueryTime ==
    Configured("SetMaxQueryTime", <<-1>>, SetMaxQueryTime(opts, sc, -1))

\* <<attrName, attrType, values>>: no name, the type 0
RejSetOverride ==
    \E a \in {<<NIL, SPH_ATTR_INTEGER, <<>>>>, <<StrGroupId, 0, <<>>>>} :
        \E r \in {SetOverride(sc, a[1], a[2], a[3])} :
            /\ ~r.panic
            /\ Configured("SetOverride", a, [opts |-> opts, sc |-> r.sc])

RejSetSelect == Configured("SetSelect", <<NIL>>, SetSelect(opts, sc, NIL))

RejSetMatchMode ==
    \E a \in {<<-1>>, <<SPH_MATCH_EXTENDED2 + 1>>} :
        Configured("SetMatchMode", a, SetMatchMode(opts, sc, a[1]))

\* <<ranker, rankexpr>>: an unknown ranker, an expression with a ranker that
\* takes none, a ranker alone, the ranker EXPR with its expression
RejSetRankingMode ==
    \E a \in {<<SPH_RANK_TOTAL + 1, <<>>>>, <<SPH_RANK_PROXIMITY_BM25 + 1, <<StrGroupId>>>>,
               <<SPH_RANK_PROXIMITY_BM25 + 2, <<>>>>, <<SPH_RANK_EXPR, <<StrGroupId>>>>} :
        Configured("SetRankingMode", a, SetRankingMode(opts, sc, a[1], a[2]))

RejSetSortMode ==
    \E a \in {<<SPH_SORT_EXPR + 1, StrGroupId>>, <<SPH_SORT_EXPR, NIL>>} :
        Configured("SetSortMode", a, SetSortMode(opts, sc, a[1], a[2]))

RejSetFieldWeights ==
    Configured("SetFieldWeights", <<<<<<StrTitle, 0>>>>>>,
               SetFieldWeights(opts, sc, <<<<StrTitle, 0>>>>))

RejSetIndexWeights ==
    Configured("SetIndexWeights", <<<<<<StrTitle, 0>>>>>>,
               SetIndexWeights(opts, sc, <<<<StrTitle, 0>>>>))

RejSetIDRange == Configured("SetIDRange", <<2, 1>>, SetIDRange(opts, sc, 2, 1))

\* <<attr, values, exclude>>: no name, no values, a valid call
RejSetFilter ==
    /\ Len(sc.filters) < MaxFilters
    /\ \E a \in {<<NIL, <<1>>, FALSE>>, <<StrGroupId, <<>>, FALSE>>,
                  <<StrGroupId, <<3>>, TRUE>>} :
         Configured("SetFilter", a, SetFilter(opts, sc, a[1], a[2], a[3]))

RejSetFilterRange ==
    \E a \in {<<NIL, 1, 2, FALSE>>, <<StrGroupId, 2, 1, FALSE>>} :
        Configured("SetFilterRange", a, SetFilterRange(opts, sc, a[1], a[2], a[3], a[4]))

RejSetFilterFloatRange ==
    \E a \in {<<NIL, F32Zero, F32One, FALSE>>, <<StrGroupId, F32One, F32Zero, FALSE>>} :
        Configured("SetFilterFloatRange", a,
                   SetFilterFloatRange(opts, sc, a[1], a[2], a[3], a[4]))

RejSetGeoAnchor ==
    \E a \in {<<NIL, StrTitle, F32One, F32One>>, <<StrTitle, NIL, F32One, F32One>>} :
        Configured("SetGeoAnchor", a, SetGeoAnchor(opts, sc, a[1], a[2], a[3], a[4]))

\* <<groupBy, groupFunc, groupSort>>
RejSetGroupBy ==
    \E a \in {<<StrGroupId, -1, StrGroupDesc>>, <<StrGroupId, SPH_GROUPBY_ATTRPAIR + 1, StrGroupDesc>>} :
        Configured("SetGroupBy", a, SetGroupBy(opts, sc, a[1], a[2], a[3]))

RejSetGroupDistinct ==
    \E a \in {<<NIL>>, <<StrGroupId>>} :
        Configured("SetGroupDistinct", a, SetGroupDistinct(opts, sc, a[1]))

NextRej ==
    \/ RejSetRetries
    \/ RejSetConnectTimeout
    \/ RejSetLimits
    \/ RejSetMaxQueryTime
    \/ RejSetOverride
    \/ RejSetSelect
    \/ RejSetMatchMode
    \/ RejSetRankingMode
    \/ RejSetSortMode
    \/ RejSetFieldWeights
    \/ RejSetIndexWeights
    \/ RejSetIDRange
    \/ RejSetFilter
    \/ RejSetFilterRange
    \/ RejSetFilterFloatRange
    \/ RejSetGeoAnchor
    \/ RejSetGroupBy
    \/ RejSetGroupDistinct

SpecRej == Init /\ [][NextRej]_vars

(*************************** a caller of the limits *************************)
\* <<offset, limit, maxMatches, cutoff>>: a cutoff, no cutoff, other limits
\* with another cutoff, a negative cutoff
CutoffArgs == {<<0, 10, 1000, 5>>, <<0, 10, 1000, 0>>, <<2, 5, 7, 3>>, <<0, 10, 1000, -1>>}

CallSetLimitsCutoff ==
    \E a \in CutoffArgs : Configured("SetLimits", a, SetLimits(opts, sc, a[1], a[2], a[3], a[4]))

NextLim ==
    \/ CallSetLimitsCutoff
    \/ (sc.reqs = <<>> /\ AddQuery /\ ret'.q = StrTest)
    \/ RunQueriesCfg

SpecLim == Init /\ [][NextLim]_vars

(************************ a caller that moves the server *******************)
\* <<host, port>>: a host and a port, another host and port, the path of a
\* unix socket, a unix:// address
DialArgs == {<<StrH, 5>>, <<StrTest, 7>>, <<StrSockPath, 0>>, <<StrUnix \o StrSockPath, 5>>}

CallSetServerDial ==
    \E a \in DialArgs : Configured("SetServer", a, SetServer(opts, sc, a[1], a[2]))

NextDial == CallSetServerDial \/ Open \/ Close

SpecDial == Init /\ [][NextDial]_vars

(********************** a daemon of MULTI64 attributes **********************)
\* the attribute values of one match as the daemon writes them: a MULTI64
\* attribute of n 32-bit words, n = 0..MaxWords, and an integer attribute, 77
Multi64Streams ==
    {writeInt32ToBytes(WireDwords(writeInt32ToBytes(<<>>, Len(ws)), ws), 77) :
        ws \in UNION {[1..n -> {0, 7, 99}] : n \in 0..MaxWords}}

InitM64 ==
    /\ opts = DefaultOptions
    /\ sc = NewClient
    /\ sock = NoSock
    /\ ret = Returned("NewClient", NIL, NIL, -1, NIL, NIL)
    /\ io = <<>>
    /\ sent = <<>>
    /\ replied = <<>>
    /\ added = <<>>
    /\ pending = 0
    /\ afterQuery = 0
    /\ panicked = FALSE
    /\ args \in {<<stream>> : stream \in Multi64Streams}
    /\ response = <<>>
    /\ envelope = -1
    /\ race = NoRace
    /\ retried = 0
    /\ peer = NewClient

\* the loop over the attributes of a match has read the two values of the
\* stream: ret.i is the cursor after the first, ret.results the values
DecodeMatchAttrs ==
    /\ ret.op = "NewClient"
    /\ \E a \in {DecodeAttrValue(NewParser(args[1]), SPH_ATTR_MULTI64)} :
         \E b \in {DecodeAttrValue(a.bp, SPH_ATTR_INTEGER)} :
             /\ ret' = Returned("DecodeAttrValue", NIL, <<a.v, b.v>>, a.bp.p, NIL, NIL)
             /\ panicked' = ~b.bp.ok
    /\ UNCHANGED <<opts, sc, sock, io, sent, replied, added, pending, afterQuery, args,
                   response, envelope, race, retried, peer>>

NextM64 == DecodeMatchAttrs

SpecM64 == InitM64 /\ [][NextM64]_vars

(*********************** a caller of the excerpt flags **********************)
\* the boolean options of ExcerptsOpts, every combination of them
FlagOpts ==
    [ExactPhrase : BOOLEAN, SinglePassage : BOOLEAN, UseBoundaries : BOOLEAN,
     WeightOrder : BOOLEAN, QueryMode : BOOLEAN, ForceAllWords : BOOLEAN,
     LoadFiles : BOOLEAN, LoadFilesScattered : BOOLEAN, AllowEmpty : BOOLEAN,
     EmitZones : BOOLEAN]

InitFlg ==
    /\ opts = DefaultOptions
    /\ sc = NewClient
    /\ sock = NoSock
    /\ ret = Returned("NewClient", NIL, NIL, -1, NIL, NIL)
    /\ io = <<>>
    /\ sent = <<>>
    /\ replied = <<>>
    /\ added = <<>>
    /\ pending = 0
    /\ afterQuery = 0
    /\ panicked = FALSE
    /\ args \in {<<eo>> : eo \in FlagOpts}
    /\ response = <<>>
    /\ envelope = -1
    /\ race = NoRace
    /\ retried = 0
    /\ peer = NewClient

\* BuildExcerpts has computed iFlags from the options
CallExcerptsFlags ==
    /\ ret.op = "NewClient"
    /\ ret' = Returned("ExcerptsFlags", NIL, NIL, ExcerptsFlags(args[1]), NIL, NIL)
    /\ UNCHANGED <<opts, sc, sock, io, sent, replied, added, pending, afterQuery, panicked,
                   args, response, envelope, race, retried, peer>>

NextFlg == CallExcerptsFlags

SpecFlg == InitFlg /\ [][NextFlg]_vars

(************************* two callers, one client *************************)
\* Nothing in the client serialises its callers.  Here two callers share one
\* client and each statement of RunQueries is a step of its own: the request
\* is built from the queue (sphinx.go 751-762), written (1306), the response
\* read (1312-1329), the results decoded and the queue cleared (768-871).
\* AddQuery is one step.  The daemon answers the frames in the order it gets
\* them.  The k-th AddQuery of the two callers asks for the query "t<k>".
RaceStep(p, pc, c, s, r, calls, frames, body, x, lost) ==
    /\ ~panicked
    /\ sc' = c
    /\ sock' = s
    /\ ret' = r
    /\ io' = calls
    /\ sent' = frames
    /\ response' = body
    /\ envelope' = IF body = <<>> THEN -1 ELSE SEARCHD_OK
    /\ race' = [x EXCEPT !.pc[p] = pc]
    /\ retried' = retried
    /\ pending' = Len(sc.reqs)
    /\ panicked' = lost
    /\ replied' = <<>>
    /\ afterQuery' = 0
    /\ args' = <<>>
    /\ UNCHANGED <<opts, added, peer>>

RaceAddQuery(p) ==
    /\ race.pc[p] = "idle"
    /\ Cardinality(race.acked) < MaxAdds
    /\ Len(sc.reqs) < MaxQueue
    /\ \E a \in {addQuery(opts, sc, <<116, 49 + Cardinality(race.acked)>>, StrIndex, NIL)} :
         RaceStep(p, "idle", a.sc, sock,
                  Returned("AddQuery", a.err, NIL, a.i, <<116, 49 + Cardinality(race.acked)>>,
                           StrIndex),
                  <<>>, <<>>, <<>>,
                  [race EXCEPT !.acked = @ \cup {a.sc.reqs[Len(a.sc.reqs)]}], FALSE)

\* the first statements of RunQueries: the check of the queue, nreqs and allReqs
RaceBuild(p) ==
    /\ race.pc[p] = "idle"
    /\ IF NoQueries(sc.reqs)
         THEN RaceStep(p, "idle", sc, sock,
                       Returned("RunQueries", RunQueriesNoQueries(sc, sock).err, NIL, -1, NIL,
                                NIL),
                       <<>>, <<>>, <<>>, race, FALSE)
         ELSE RaceStep(p, "built", sc, sock, ret, <<>>, <<>>, <<>>,
                       [race EXCEPT !.snap[p] = sc.reqs], FALSE)

\* doRequest up to conn.Write: connect(), then the frame goes out and the daemon
\* puts its answer to it on the socket
RaceWrite(p) ==
    /\ race.pc[p] = "built"
    /\ \E cn \in {connect(opts, sc, sock, NetFail("none"))} :
         RaceStep(p, "written", cn.sc, cn.sock, ret, cn.io \o <<"write">>,
                  <<Frame(SEARCHD_COMMAND_SEARCH, VER_COMMAND_SEARCH, AllReqs(race.snap[p]))>>,
                  <<>>,
                  [race EXCEPT
                      !.stream = Append(@, [to |-> p,
                                            body |-> WireReply(<<>>, AllOk(Len(race.snap[p])))]),
                      !.framed = @ \cup {race.snap[p][k] : k \in 1..Len(race.snap[p])}],
                  FALSE)

\* doRequest from the read of the header on: the oldest unread response is taken
RaceRead(p) ==
    /\ race.pc[p] = "written"
    /\ race.stream # <<>>
    /\ RaceStep(p, "read", sc, sock, ret, <<"readheader", "readbody">>, <<>>,
                Head(race.stream).body,
                [race EXCEPT !.got[p] = Head(race.stream), !.stream = Tail(@)], FALSE)

\* the rest of RunQueries: nreqs results are decoded and the queue is cleared
RaceFinish(p) ==
    /\ race.pc[p] = "read"
    /\ \E r \in {afterRequest([sc |-> sc, sock |-> sock, res |-> race.got[p].body, err |-> NIL,
                               io |-> <<>>, sent |-> <<>>],
                              Len(race.snap[p]), <<>>)} :
         RaceStep(p, "idle", r.sc, sock, Returned("RunQueries", r.err, r.results, -1, NIL, NIL),
                  <<>>, <<>>, <<>>, race, r.panic)

NextRace ==
    \E p \in Callers :
        RaceAddQuery(p) \/ RaceBuild(p) \/ RaceWrite(p) \/ RaceRead(p) \/ RaceFinish(p)

SpecRace == Init /\ [][NextRace]_vars

(********************************* sphinxql ********************************)
RECURSIVE EscapeFromKeepsLast(_, _, _, _)
RECURSIVE EscapeFrom(_, _, _, _)
RECURSIVE FormatUint(_)

\* the bytes escapeString has a case for: NUL, \n, \r, backslash, ', ", Ctrl-Z
EscBytes == {0, 10, 13, 92, 39, 34, 26}

\* `for ii, bb := range txt` walks the runes of txt: the rune that starts at
\* byte ii and its width.  A byte below 128 is its own rune; a lead byte
\* 0xC2..0xDF with a continuation byte is a rune of two bytes; a byte that
\* starts no valid encoding is U+FFFD of width 1.  (The texts drawn hold no
\* lead byte of a longer encoding.)
RuneAt(txt, ii) ==
    IF txt[ii] < 128
      THEN [bb |-> txt[ii], w |-> 1]
    ELSE IF txt[ii] \in 194..223 /\ ii < Len(txt) /\ txt[ii + 1] \in 128..191
      THEN [bb |-> (txt[ii] - 192) * 64 + (txt[ii + 1] - 128), w |-> 2]
    ELSE [bb |-> 65533, w |-> 1]

\* the switch of escapeString: esc for the rune bb, NIL in the default case
Esc(bb) ==
    CASE bb = 0 -> <<92, 48>>
      [] bb = 10 -> <<92, 110>>
      [] bb = 13 -> <<92, 114>>
      [] bb = 92 -> <<92, 92>>
      [] bb = 39 -> <<92, 39>>
      [] bb = 34 -> <<92, 34>>
      [] bb = 26 -> <<92, 90>>
      [] OTHER -> NIL

\* the mutant of EscapeFrom: last = ii, the escaped byte is copied as well
EscapeFromKeepsLast(txt, ii, last, buf) ==
    IF ii > Len(txt)
      THEN buf \o SubSeq(txt, last, Len(txt))
    ELSE IF Esc(RuneAt(txt, ii).bb) = NIL
      THEN EscapeFromKeepsLast(txt, ii + RuneAt(txt, ii).w, last, buf)
    ELSE EscapeFromKeepsLast(txt, ii + RuneAt(txt, ii).w, ii,
                             buf \o SubSeq(txt, last, ii - 1) \o Esc(RuneAt(txt, ii).bb))

\* the loop of escapeString from the rune at byte ii on (bytes are counted from
\* 1 here): txt[last:ii] and esc are written at a rune with a case, then
\* last = ii + 1; after the loop txt[last:] is written
EscapeFrom(txt, ii, last, buf) ==
    IF ii > Len(txt)
      THEN buf \o SubSeq(txt, last, Len(txt))
    ELSE IF Esc(RuneAt(txt, ii).bb) = NIL
      THEN EscapeFrom(txt, ii + RuneAt(txt, ii).w, last, buf)
    ELSE EscapeFrom(txt, ii + RuneAt(txt, ii).w, ii + 1,
                    buf \o SubSeq(txt, last, ii - 1) \o Esc(RuneAt(txt, ii).bb))

escapeString(txt) == EscapeFrom(txt, 1, 1, <<>>)

QuoteStr(s) == <<39>> \o escapeString(s) \o <<39>>

\* strconv.FormatUint(n, 10) and strconv.FormatInt(n, 10)
FormatUint(n) == IF n < 10 THEN <<48 + n>> ELSE FormatUint(n \div 10) \o <<48 + (n % 10)>>

FormatInt(n) == IF n < 0 THEN <<45>> \o FormatUint(-n) ELSE FormatUint(n)

\* strconv.FormatFloat(f, 'f', -1, 64) of a float given by its shortest decimal
\* expansion [neg, int, frac]: no exponent, as few digits as give f back
FormatFloat(f) ==
    (IF f.neg THEN <<45>> ELSE <<>>) \o FormatUint(f.int)
        \o (IF f.frac = <<>> THEN <<>> ELSE <<46>> \o f.frac)

\* val is what reflect says of a value: its Kind, for a slice the name of its
\* element type, and the value v
GetValQuoteStr(val) ==
    CASE val.kind = "bool" -> [str |-> IF val.v THEN <<89>> ELSE <<78>>, err |-> NIL]
      [] val.kind = "int" -> [str |-> FormatInt(val.v), err |-> NIL]
      [] val.kind = "uint" -> [str |-> FormatUint(val.v), err |-> NIL]
      [] val.kind = "float" -> [str |-> FormatFloat(val.v), err |-> NIL]
      [] val.kind = "string" -> [str |-> QuoteStr(val.v), err |-> NIL]
      [] val.kind = "slice" ->
           IF val.elem # "uint8"
             THEN [str |-> NIL, err |-> Err("GetValQuoteStr> slicetype is not []byte")]
             ELSE [str |-> QuoteStr(val.v), err |-> NIL]
      [] OTHER ->
           [str |-> NIL,
            err |-> Err("GetValQuoteStr> reflect.Value is not a string/int/uint/float/bool/[]byte!")]

(************************ a caller of the quoting functions ****************)
\* the texts: up to MaxLen bytes, each a byte escapeString has a case for, the
\* letter a, or one of the two bytes of U+00E9
Texts == UNION {[1..n -> EscBytes \cup {97, 195, 169}] : n \in 0..MaxLen}

Vals ==
    {[kind |-> "string", elem |-> "", v |-> t] : t \in Texts}
        \cup {[kind |-> "bool", elem |-> "", v |-> b] : b \in BOOLEAN}
        \cup {[kind |-> "int", elem |-> "", v |-> n] : n \in {-2147483647, -120, -1, 0, 7, 10, 305}}
        \cup {[kind |-> "uint", elem |-> "", v |-> n] : n \in {0, 9, 4096}}
        \cup {[kind |-> "float", elem |-> "", v |-> [neg |-> TRUE, int |-> 0, frac |-> <<50, 53>>]],
              [kind |-> "slice", elem |-> "uint8", v |-> <<39, 97>>],
              [kind |-> "slice", elem |-> "int", v |-> <<1>>],
              [kind |-> "struct", elem |-> "", v |-> <<>>]}

InitEsc ==
    /\ opts = DefaultOptions
    /\ sc = NewClient
    /\ sock = NoSock
    /\ ret = Returned("NewClient", NIL, NIL, -1, NIL, NIL)
    /\ io = <<>>
    /\ sent = <<>>
    /\ replied = <<>>
    /\ added = <<>>
    /\ pending = 0
    /\ afterQuery = 0
    /\ panicked = FALSE
    /\ args \in {<<val>> : val \in Vals}
    /\ response = <<>>
    /\ envelope = -1
    /\ race = NoRace
    /\ retried = 0
    /\ peer = NewClient

\* a function of sphinxql.go has returned the text str and the error err
Quoted(op, str, err) ==
    /\ ret' = Returned(op, err, NIL, -1, NIL, NIL)
    /\ response' = str
    /\ UNCHANGED <<opts, sc, sock, io, sent, replied, added, pending, afterQuery, panicked, args,
                   envelope, race, retried, peer>>

CallEscapeString ==
    /\ args[1].kind = "string"
    /\ Quoted("escapeString", escapeString(args[1].v), NIL)

CallQuoteStr ==
    /\ args[1].kind = "string"
    /\ Quoted("QuoteStr", QuoteStr(args[1].v), NIL)

CallGetValQuoteStr ==
    \E r \in {GetValQuoteStr(args[1])} : Quoted("GetValQuoteStr", r.str, r.err)

NextEsc == CallEscapeString \/ CallQuoteStr \/ CallGetValQuoteStr

SpecEsc == InitEsc /\ [][NextEsc]_vars

(***************************** sphinxql: Delete ****************************)
RECURSIVE IdList(_, _)

StrRt == <<114, 116>>                                             \* "rt", an index
StrDeleteFrom == <<68, 69, 76, 69, 84, 69, 32, 70, 82, 79, 77, 32>>
StrWhereId == <<32, 87, 72, 69, 82, 69, 32, 105, 100, 32>>
StrIn == <<73, 78, 32, 40>>

SetIndex(o, c, index) ==
    IF index = NIL
      THEN [opts |-> o, sc |-> [c EXCEPT !.err = Err("SetIndex > Index name is empty!")]]
      ELSE [opts |-> [o EXCEPT !.Index = index], sc |-> c]

\* What the database does with a statement.  db.fail: "open" sql.Open fails in
\* GetDb, "exec" DB.Exec fails, "nil" Exec gives no result, "rows"
\* RowsAffected fails, "none" nothing fails; db.rows: the rows affected.
\* stmts: the statements that reached DB.Exec.
Execute(c, sqlStr, db) ==
    IF ~c.DB /\ db.fail = "open"
      THEN [sc |-> c, ok |-> FALSE, err |-> Err("Execute> sql.Open"), stmts |-> <<>>]
    ELSE IF db.fail = "exec"
      THEN [sc |-> [c EXCEPT !.DB = TRUE], ok |-> FALSE, err |-> Err("DB.Exec"),
            stmts |-> <<sqlStr>>]
    ELSE [sc |-> [c EXCEPT !.DB = TRUE], ok |-> db.fail # "nil", err |-> NIL,
          stmts |-> <<sqlStr>>]

RowsAffected(x, db) ==
    IF x.err # NIL
      THEN [sc |-> x.sc, rowsAffected |-> -1, err |-> x.err, stmts |-> x.stmts]
    ELSE IF ~x.ok
      THEN [sc |-> x.sc, rowsAffected |-> -1, stmts |-> x.stmts,
            err |-> Err("ExecuteReturnRowsAffected: Nil result")]
    ELSE IF db.fail = "rows"
      THEN [sc |-> x.sc, rowsAffected |-> -1, stmts |-> x.stmts,
            err |-> Err("ExecuteReturnRowsAffected: RowsAffected")]
    ELSE IF db.rows < 0
      THEN [sc |-> x.sc, rowsAffected |-> db.rows, stmts |-> x.stmts,
            err |-> Err("ExecuteReturnRowsAffected> Nagtive RowsAffected()")]
    ELSE [sc |-> x.sc, rowsAffected |-> db.rows, err |-> NIL, stmts |-> x.stmts]

ExecuteReturnRowsAffected(c, sqlStr, db) == RowsAffected(Execute(c, sqlStr, db), db)

\* the mutant of InvalidId: only a negative id is refused
InvalidIdNegative(id) == id < 0

\* v <= 0 and id <= 0, the checks of Delete on an id
InvalidId(id) == id <= 0

\* strconv.Itoa(id) + "," for each id of v from the k-th on
IdList(v, k) == IF k > Len(v) THEN <<>> ELSE FormatInt(v[k]) \o <<44>> \o IdList(v, k + 1)

\* the statement of Delete for a valid obj: the last "," is changed to ")"
DeleteStatement(o, obj) ==
    StrDeleteFrom \o o.Index \o StrWhereId
        \o (IF obj.kind = "int"
              THEN <<61, 32>> \o FormatInt(obj.v)
              ELSE StrIn \o SubSeq(IdList(obj.v, 1), 1, Len(IdList(obj.v, 1)) - 1) \o <<41>>)

\* the error of the type switch of Delete, NIL when obj passes it
DeleteRefused(obj) ==
    CASE obj.kind = "int" ->
           IF InvalidId(obj.v) THEN Err("Delete> Invalid id val") ELSE NIL
      [] obj.kind = "[]int" ->
           IF Len(obj.v) = 0 THEN Err("Delete> Empty []int")
           ELSE IF \E k \in 1..Len(obj.v) : InvalidId(obj.v[k])
             THEN Err("Delete> Invalid id val")
           ELSE NIL
      [] OTHER -> Err("Delete> Invalid type, must be int or []int")

DeleteExecuted(x) ==
    [sc |-> x.sc, rowsAffected |-> IF x.err # NIL THEN 0 ELSE x.rowsAffected, err |-> x.err,
     stmts |-> x.stmts]

\* sc.Init(nil) does nothing and returns nil
Delete(o, c, obj, db) ==
    IF DeleteRefused(obj) # NIL
      THEN [sc |-> c, rowsAffected |-> -1, err |-> DeleteRefused(obj), stmts |-> <<>>]
      ELSE DeleteExecuted(ExecuteReturnRowsAffected(c, DeleteStatement(o, obj), db))

(***************************** a caller of Delete **************************)
\* an id, ids, and what is neither: a string, an int64, nil
DeleteArgs ==
    {[kind |-> "int", v |-> 5], [kind |-> "int", v |-> 0], [kind |-> "int", v |-> -3],
     [kind |-> "[]int", v |-> <<>>], [kind |-> "[]int", v |-> <<4, 3>>],
     [kind |-> "[]int", v |-> <<4, 0>>], [kind |-> "[]int", v |-> <<-1, 2>>],
     [kind |-> "string", v |-> <<53>>], [kind |-> "int64", v |-> 5], [kind |-> "nil", v |-> <<>>]}

DbOutcomes ==
    {[fail |-> f, rows |-> 1] : f \in {"open", "exec", "nil", "rows"}}
        \cup {[fail |-> "none", rows |-> n] : n \in {0, 2, -1}}

CallSetIndex ==
    \E index \in {NIL, StrRt} : Configured("SetIndex", <<index>>, SetIndex(opts, sc, index))

CallDelete ==
    \E obj \in DeleteArgs, db \in DbOutcomes :
        \E r \in {Delete(opts, sc, obj, db)} :
            /\ ~panicked
            /\ sc' = r.sc
            /\ ret' = Returned("Delete", r.err, NIL, r.rowsAffected, NIL, NIL)
            /\ args' = <<obj, db>>
            /\ sent' = r.stmts
            /\ io' = [k \in 1..Len(r.stmts) |-> "exec"]
            /\ response' = <<>>
            /\ envelope' = -1
            /\ race' = race
            /\ retried' = retried
            /\ pending' = Len(sc.reqs)
            /\ replied' = <<>>
            /\ afterQuery' = 0
            /\ UNCHANGED <<opts, sock, added, panicked, peer>>

NextSql == CallSetIndex \/ CallDelete

SpecSql == Init /\ [][NextSql]_vars

(***************************** sphinxql: Update ****************************)
RECURSIVE ColVals(_, _, _)
RECURSIVE UpdateStr(_, _, _)

StrId == <<73, 100>>                                              \* DefaultPK, "Id"
StrUpdate == <<85, 80, 68, 65, 84, 69, 32>>                       \* "UPDATE "
StrSet == <<32, 83, 69, 84, 32>>                                  \* " SET "
StrWhere == <<32, 87, 72, 69, 82, 69, 32>>                        \* " WHERE "

\* columns is variadic: a sequence of names
SetColumns(o, c, columns) ==
    IF Len(columns) = 0
      THEN [opts |-> o, sc |-> [c EXCEPT !.err = Err("SetColumns > Columns is empty!")]]
      ELSE [opts |-> [o EXCEPT !.Columns = columns], sc |-> c]

\* An object is what reflect.Indirect(reflect.ValueOf(obj)) says of it: ptr,
\* whether obj was a pointer (the value is addressable); kind; for a struct
\* its fields in order, each <<name, val>>, none of them a struct itself; for
\* anything else the value val.  A val is as GetValQuoteStr takes it.
\* the index of the first field called name, 0 when there is none ([]int{-1})
getFieldIndexByName(fields, name) ==
    IF \E k \in 1..Len(fields) : fields[k][1] = name
      THEN CHOOSE k \in 1..Len(fields) :
             fields[k][1] = name /\ \A j \in 1..(k - 1) : fields[j][1] # name
      ELSE 0

\* the text of the column col of obj
ColVal(obj, col) ==
    IF obj.kind # "struct" THEN GetValQuoteStr(obj.val)
    ELSE IF getFieldIndexByName(obj.fields, col) = 0
      THEN [str |-> NIL, err |-> Err("GetColVals> Can't found struct field(column)")]
    ELSE GetValQuoteStr(obj.fields[getFieldIndexByName(obj.fields, col)][2])

\* the loop of GetColVals from the k-th column on: it stops at the first error
ColVals(obj, cols, k) ==
    IF k > Len(cols) THEN [values |-> <<>>, err |-> NIL]
    ELSE IF ColVal(obj, cols[k]).err # NIL THEN [values |-> <<>>, err |-> ColVal(obj, cols[k]).err]
    ELSE [values |-> <<ColVal(obj, cols[k]).str>> \o ColVals(obj, cols, k + 1).values,
          err |-> ColVals(obj, cols, k + 1).err]

GetColVals(obj, cols) ==
    IF obj.kind # "struct" /\ Len(cols) # 1
      THEN [values |-> <<>>, err |-> Err("GetColVals> If not a struct, must have one column")]
      ELSE ColVals(obj, cols, 1)

\* col + "=" + colVals[i] + "," for each column from the k-th on
UpdateStr(cols, colVals, k) ==
    IF k > Len(cols) THEN <<>>
    ELSE cols[k] \o <<61>> \o colVals[k] \o <<44>> \o UpdateStr(cols, colVals, k + 1)

\* the WHERE clause Update makes when none is set: [where, err, panic].
\* FieldByName gives the zero Value when there is no field Id, and Int()
\* panics on a Value whose kind is not an int.
WhereOfId(obj) ==
    IF obj.kind # "struct"
      THEN [where |-> NIL, panic |-> FALSE,
            err |-> Err("Update > If not set WHERE clause, then must be a struct object with Id field")]
    ELSE IF getFieldIndexByName(obj.fields, StrId) = 0
      THEN [where |-> NIL, panic |-> FALSE, err |-> Err("Update > Invalid Id field")]
    ELSE IF obj.fields[getFieldIndexByName(obj.fields, StrId)][2].kind # "int"
      THEN [where |-> NIL, panic |-> TRUE, err |-> NIL]
    ELSE [where |-> StrId \o <<61>>
                      \o FormatInt(obj.fields[getFieldIndexByName(obj.fields, StrId)][2].v),
          panic |-> FALSE, err |-> NIL]

UpdateFailed(o, c, err) ==
    [opts |-> o, sc |-> c, rowsAffected |-> -1, err |-> err, stmts |-> <<>>, panic |-> FALSE]

UpdateStatement(o, updateStr) ==
    StrUpdate \o o.Index \o StrSet \o SubSeq(updateStr, 1, Len(updateStr) - 1)
        \o StrWhere \o o.Where

\* Update once sc.Where is set in o: the statement is executed
UpdateExecuted(o, x) ==
    [opts |-> o, sc |-> x.sc, rowsAffected |-> IF x.err # NIL THEN -1 ELSE x.rowsAffected,
     err |-> x.err, stmts |-> x.stmts, panic |-> FALSE]

\* Update from `if sc.Where == ""` on: the clause is made only when none is
\* set, and it is stored in sc.Where
UpdateWhere(o, c, obj, updateStr, db) ==
    IF o.Where # NIL
      THEN UpdateExecuted(o, ExecuteReturnRowsAffected(c, UpdateStatement(o, updateStr), db))
    ELSE IF WhereOfId(obj).panic
      THEN [opts |-> o, sc |-> c, rowsAffected |-> -1, err |-> NIL, stmts |-> <<>>,
            panic |-> TRUE]
    ELSE IF WhereOfId(obj).err # NIL THEN UpdateFailed(o, c, WhereOfId(obj).err)
    ELSE UpdateExecuted([o EXCEPT !.Where = WhereOfId(obj).where],
                        ExecuteReturnRowsAffected(
                            c, UpdateStatement([o EXCEPT !.Where = WhereOfId(obj).where],
                                               updateStr), db))

\* sc.val, which Init sets from obj, is read by this call only
Update(o, c, obj, db) ==
    IF ~obj.ptr THEN UpdateFailed(o, c, Err("Update > sc.Init> The obj value is unaddressable value"))
    ELSE IF Len(o.Columns) = 0 THEN UpdateFailed(o, c, Err("Update > columns is not set!"))
    ELSE IF GetColVals(obj, o.Columns).err # NIL
      THEN UpdateFailed(o, c, GetColVals(obj, o.Columns).err)
    ELSE IF \E i \in 1..Len(o.Columns) : GetColVals(obj, o.Columns).values[i][1] = 39
      THEN UpdateFailed(o, c, Err("Update > Do not support update string field"))
    ELSE UpdateWhere(o, c, obj, UpdateStr(o.Columns, GetColVals(obj, o.Columns).values, 1), db)

(***************************** a caller of Update **************************)
IntVal(n) == [kind |-> "int", elem |-> "", v |-> n]

\* a row of the index: its Id, a title, a group
Row(ptr, id, g) ==
    [kind |-> "struct", ptr |-> ptr,
     fields |-> <<<<StrId, IntVal(id)>>, <<StrTitle, [kind |-> "string", elem |-> "", v |-> StrMy]>>,
                  <<StrGroupId, IntVal(g)>>>>,
     val |-> IntVal(0)]

\* rows of different Id given by pointer, a row given by value, a struct
\* without an Id, an int
RowArgs ==
    {Row(TRUE, 2, 20), Row(TRUE, 3, 30), Row(TRUE, 14, 7), Row(FALSE, 5, 50),
     [kind |-> "struct", ptr |-> TRUE, fields |-> <<<<StrGroupId, IntVal(4)>>>>, val |-> IntVal(0)],
     [kind |-> "int", ptr |-> TRUE, fields |-> <<>>, val |-> IntVal(6)]}

UpdateDbs == {[fail |-> "none", rows |-> 1], [fail |-> "exec", rows |-> 1]}

\* <<columns>>: none, the group, the title (a string field)
CallSetColumns ==
    \E a \in {<<<<>>>>, <<<<StrGroupId>>>>, <<<<StrTitle>>>>} :
        Configured("SetColumns", a, SetColumns(opts, sc, a[1]))

CallSetIndexRt == Configured("SetIndex", <<StrRt>>, SetIndex(opts, sc, StrRt))

\* the client `who` ("sc" or "peer"), whose own fields are c, has called Update
Updated(op, who, c) ==
    /\ ~panicked
    /\ \E obj \in RowArgs, db \in UpdateDbs :
         \E r \in {Update(opts, c, obj, db)} :
             /\ opts' = r.opts
             /\ sc' = (IF who = "sc" THEN r.sc ELSE sc)
             /\ peer' = (IF who = "peer" THEN r.sc ELSE peer)
             /\ ret' = Returned(op, r.err, NIL, r.rowsAffected, NIL, NIL)
             /\ panicked' = r.panic
             /\ args' = <<obj, db>>
             /\ sent' = r.stmts
             /\ io' = [k \in 1..Len(r.stmts) |-> "exec"]
    /\ response' = <<>>
    /\ envelope' = -1
    /\ race' = race
    /\ retried' = retried
    /\ pending' = Len(sc.reqs)
    /\ replied' = <<>>
    /\ afterQuery' = 0
    /\ UNCHANGED <<sock, added>>

CallUpdate == Updated("Update", "sc", sc)

PeerUpdate == Updated("peer.Update", "peer", peer)

NextRow == CallSetIndexRt \/ CallSetColumns \/ CallUpdate \/ PeerUpdate

SpecRow == Init /\ [][NextRow]_vars

(********************************** claims *********************************)
NoQueriesError == Err("RunQueries > No queries defined, issue AddQuery() first.")

Commands == {"RunQueries", "Query", "Open"}

\* C1: RunQueries called with an empty queue returns the "no queries" error and
\* makes no network call at all (nothing dialled, read or written); the
\* connection, its error flag and the socket are as they were before the call.
C1_EmptyQueueNoNetwork ==
    [][(ret'.op = "RunQueries" /\ Len(sc.reqs) = 0) =>
          /\ ret'.err = NoQueriesError
          /\ ret'.results = NIL
          /\ io' = <<>>
          /\ sent' = <<>>
          /\ sc' = sc
          /\ sock' = sock]_vars

\* RunQueries has returned "no queries" on a client that holds a handshaken connection
C1_Witness ==
    /\ ret.op = "RunQueries"
    /\ pending = 0
    /\ ret.err = NoQueriesError
    /\ sc.conn # NoConn
    /\ sock.verWritten = 1

\* the requests of the AddQuery calls `a`, first call first
RECURSIVE RequestsInOrder(_)
RequestsInOrder(a) == IF a = <<>> THEN <<>> ELSE Head(a).req \o RequestsInOrder(Tail(a))

\* the result the client returns for the daemon's block
ResultOfBlock(result, block) ==
    /\ result.Status = block.status
    /\ result.Warning = (IF block.status = SEARCHD_WARNING THEN block.msg ELSE NIL)
    /\ result.Error = (IF block.status \in {SEARCHD_ERROR, SEARCHD_RETRY}
                         THEN ErrD("", block.msg) ELSE NIL)
    /\ result.TotalFound = (IF block.status \in {SEARCHD_ERROR, SEARCHD_RETRY}
                              THEN 0 ELSE block.found)
    /\ Len(result.Matches) = (IF block.status \in {SEARCHD_ERROR, SEARCHD_RETRY}
                                THEN 0 ELSE Len(block.matches))

\* C2: a RunQueries that succeeds with N requests pending has written exactly
\* one frame, whose body is the client marker 0, the count N and the N requests
\* in the order of their AddQuery calls; it returns exactly N results, result i
\* being the daemon's answer to request i; and it leaves the queue empty.
C2_RunQueriesBatch ==
    [][(ret'.op = "RunQueries" /\ ret'.err = NIL /\ ~panicked') =>
          /\ sent' = <<Frame(SEARCHD_COMMAND_SEARCH, VER_COMMAND_SEARCH,
                             <<0, 0, 0, 0>> \o writeInt32ToBytes(<<>>, Len(added))
                                 \o RequestsInOrder(added))>>
          /\ Len(added) = Len(sc.reqs)
          /\ Len(ret'.results) = Len(added)
          /\ Len(replied') = Len(added)
          /\ \A i \in 1..Len(added) : ResultOfBlock(ret'.results[i], replied'[i])
          /\ sc'.reqs = <<>>]_vars

\* RunQueries has returned two results of different status for two different queries
C2_Witness ==
    /\ ret.op = "RunQueries"
    /\ ret.err = NIL
    /\ ~panicked
    /\ pending = 2
    /\ Len(ret.results) = 2
    /\ ret.results[1].Status = SEARCHD_OK
    /\ ret.results[2].Status = SEARCHD_WARNING
    /\ sc.reqs = <<>>

\* the one request of Query(q, index, "") under the configuration of the state
QueryRequest(q, index) == EncodeQuery(opts, sc, q, IF index = NIL THEN StrStar ELSE index, NIL)

\* C3: Query resets the queue to its own request: whatever was pending before
\* the call is neither sent nor kept.  The frame Query writes, if it writes one,
\* carries the count 1 and that one request, and afterwards the queue holds
\* nothing (Query succeeded) or that one request.
C3_QueryResetsQueue ==
    [][ret'.op = "Query" =>
          /\ sent' \in {<<>>, <<Frame(SEARCHD_COMMAND_SEARCH, VER_COMMAND_SEARCH,
                                      <<0, 0, 0, 0, 0, 0, 0, 1>>
                                          \o QueryRequest(ret'.q, ret'.index))>>}
          /\ sc'.reqs \in {<<>>, <<QueryRequest(ret'.q, ret'.index)>>}]_vars

\* Query has sent its frame and succeeded on a client that had two requests pending
C3_Witness ==
    /\ ret.op = "Query"
    /\ pending = 2
    /\ Len(sent) = 1
    /\ ret.err = NIL
    /\ sc.reqs = <<>>

\* C4: after a successful Query, one further AddQuery followed by RunQueries
\* (both successful) returns two results.
C4_TwoResultsAfterQuery == afterQuery = 3 => Len(ret.results) = 2

\* C5: Query returns no result and an error when the one decoded result carries
\* an error (the daemon answered ERROR or RETRY for the query); a result with a
\* warning is returned all the same; after a Query that succeeded the client's
\* last warning is the warning of the result returned, empty if it has none.
C5_QueryUnwraps ==
    (ret.op = "Query" /\ ~panicked /\ replied # <<>>) =>
        /\ (replied[1].status \in {SEARCHD_ERROR, SEARCHD_RETRY}) =>
               (ret.results = NIL /\ ret.err = ErrD("Query > Result error: ", replied[1].msg))
        /\ (replied[1].status \in {SEARCHD_OK, SEARCHD_WARNING}) =>
               (/\ ret.err = NIL
                /\ Len(ret.results) = 1
                /\ ResultOfBlock(ret.results[1], replied[1]))
        /\ (ret.err = NIL) => (sc.warning = ret.results[1].Warning)

\* Query has returned a result that carries a warning
C5_Witness ==
    /\ ret.op = "Query"
    /\ ret.err = NIL
    /\ replied # <<>>
    /\ replied[1].status = SEARCHD_WARNING
    /\ ret.results[1].Warning = StrWarn
    /\ sc.warning = StrWarn

\* C6: a successful AddQuery appends exactly one request and returns its
\* position: the k-th successful AddQuery since the queue was last emptied
\* returns k-1 and leaves a queue of length k, one longer than before, whose
\* last entry is the request just built.
C6_AddQueryPosition ==
    (ret.op = "AddQuery" /\ ret.err = NIL) =>
        /\ ret.i = Len(added) - 1
        /\ Len(sc.reqs) = Len(added)
        /\ Len(sc.reqs) = pending + 1
        /\ sc.reqs[Len(sc.reqs)] = added[Len(added)].req

\* the second AddQuery in a row has returned 1
C6_Witness ==
    /\ ret.op = "AddQuery"
    /\ ret.err = NIL
    /\ ret.i = 1
    /\ Len(sc.reqs) = 2

Handshake == {"dial", "setdeadline", "readver", "writever", "cleardeadline"}

\* C7: when the client holds a connection, connect() neither dials nor
\* handshakes and succeeds: a command on such a client makes none of the calls
\* of connect(), reads and writes no version, and goes straight to writing its
\* request; no socket ever sees more than one handshake.
C7_ConnectIdempotent ==
    [][(sc.conn # NoConn /\ ret'.op \in Commands) =>
          /\ \A k \in 1..Len(io') : io'[k] \notin Handshake
          /\ sock'.verRead = sock.verRead
          /\ sock'.verWritten = sock.verWritten
          /\ sock'.verRead <= 1
          /\ sock'.verWritten <= 1
          /\ (ret'.op = "RunQueries" /\ Len(sc.reqs) = 0) \/ (io' # <<>> /\ io'[1] = "write")]_vars

\* RunQueries has succeeded without a dial on a socket that was handshaken once
C7_Witness ==
    /\ ret.op = "RunQueries"
    /\ ret.err = NIL
    /\ io = <<"write", "readheader", "readbody">>
    /\ sock.verRead = 1
    /\ sock.verWritten = 1

\* C8: after a transport failure of a command (write, header read, body read)
\* the next command that uses the network dials and handshakes again before it
\* writes; it does not use the socket that failed.
C8_ReconnectAfterFailure ==
    [][(sock.failed /\ ret'.op \in Commands /\ io' # <<>>) => io'[1] = "dial"]_vars

TransportErrors ==
    {"connect() net.DialTimeout", "connect() conn.SetDeadline()", "connect() io.ReadFull()",
     "connect() conn.Write()", "conn.Write error", "doRequest > just read bytes into header!",
     "doRequest > just read bytes into res"}

ProtocolErrors ==
    {"doRequest > SEARCHD_ERROR: ", "doRequest > unknown status code",
     "doRequest > invalid response packet size"}

\* C9: after a search that failed, the connection-error flag is set if the
\* failure was one of the transport (dial, handshake I/O, write, read) and is
\* not set if the daemon answered ERROR or RETRY, an unknown status or a body
\* of invalid length, whatever happened to earlier operations.
C9_ConnErrorFlag ==
    (ret.op \in {"RunQueries", "Query"} /\ ret.err # NIL) =>
        /\ (ret.err[1] \in TransportErrors) => sc.connerror
        /\ (ret.err[1] \in ProtocolErrors) => ~sc.connerror

Setters == {"SetLimits", "SetSelect", "SetMatchMode", "SetFilterRange"}

\* C10: when a setter has recorded a configuration error, the next AddQuery,
\* RunQueries or Query returns that error, writes nothing and queues nothing.
C10_ConfigErrorSurfaces ==
    [][(ret.op \in Setters /\ sc.err # NIL /\ ret'.op \in {"AddQuery", "RunQueries", "Query"}) =>
          /\ ret'.err = sc.err
          /\ sent' = <<>>
          /\ sc'.reqs = sc.reqs]_vars

\* the <<offset, limit, maxMatches, cutoff>> that SetLimits is to reject
LimitsRejected(a) == a[1] < 0 \/ a[2] <= 0 \/ a[3] <= 0 \/ a[4] < 0

\* the <<attr, umin, umax>> that SetFilterRange is to reject
FilterRangeRejected(a) == a[1] = NIL \/ a[2] > a[3]

Limits(o) == <<o.Offset, o.Limit, o.MaxMatches, o.Cutoff>>

\* C11: SetLimits with a negative offset, a limit <= 0, maxMatches <= 0 or a
\* negative cutoff, and SetFilterRange with an empty attribute name or
\* umin > umax, record a configuration error that Error()/GetLastError()
\* return, and leave offset, limit, maxMatches, cutoff and the list of filters
\* exactly as they were before the call.
C11_RejectedSetterKeepsConfig ==
    [][(\/ ret'.op = "SetLimits" /\ LimitsRejected(args')
        \/ ret'.op = "SetFilterRange" /\ FilterRangeRejected(args')) =>
          /\ GetLastError(sc') # NIL
          /\ GetLastError(sc')[1] \in
                 {"SetLimits > offset must not be negative", "SetLimits > limit must be positive",
                  "SetLimits > maxMatches must be positive",
                  "SetLimits > cutoff must not be negative",
                  "SetFilterRange > attribute name is empty!", "SetFilterRange > min > max!"}
          /\ Limits(opts') = Limits(opts)
          /\ sc'.filters = sc.filters]_vars

\* SetLimits has rejected a negative offset on a client whose limit had been
\* set to 10 and that has one filter
C11_Witness ==
    /\ ret.op = "SetLimits"
    /\ args[1] = -1
    /\ GetLastError(sc) = Err("SetLimits > offset must not be negative")
    /\ opts.Limit = 10
    /\ Len(sc.filters) = 1

\* the settings read back from a client whose own fields are c: the Options it
\* points to and its own filters and weights
Settings(o, c) == <<o, c.filters, c.weights, c.indexWeights, c.fieldWeights>>

\* C12: two clients from NewClient() share no state: a configuration call on
\* one changes neither the settings read back from the other nor the request
\* bytes the other's AddQuery encodes, whatever the order of their calls.
C12_ClientsShareNoState ==
    [][/\ (ret'.op \in {"SetLimits", "SetSortMode", "SetFilterRange"}) =>
            /\ Settings(opts', peer') = Settings(opts, peer)
            /\ EncodeQuery(opts', peer', StrTest, StrIndex, NIL)
                  = EncodeQuery(opts, peer, StrTest, StrIndex, NIL)
       /\ (ret'.op = "peer.SetLimits") =>
            /\ Settings(opts', sc') = Settings(opts, sc)
            /\ EncodeQuery(opts', sc', StrTest, StrIndex, NIL)
                  = EncodeQuery(opts, sc, StrTest, StrIndex, NIL)]_vars

\* the body the client read is the daemon's reply `replied` with its end missing
ShortBody ==
    /\ replied # <<>>
    /\ response # <<>>
    /\ Len(response) < Len(WireReply(<<>>, replied))
    /\ response = SubSeq(WireReply(<<>>, replied), 1, Len(response))

\* C13: a response body shorter than its declared counts makes RunQueries
\* return a decode error and no results: it does not crash (no read leaves the
\* buffer) and it returns no truncated or partial list of results.
C13_ShortBodyIsDecodeError ==
    (ret.op = "RunQueries" /\ ShortBody) =>
        /\ ~panicked
        /\ ret.err # NIL
        /\ ret.results = NIL

\* the body the client read is the daemon's reply `replied`, whole
WellFramed == replied # <<>> /\ response = WireReply(<<>>, replied)

\* the result holds everything of the daemon's block
DecodedFully(result, block) ==
    /\ result.Fields = block.fields
    /\ result.AttrNames = [k \in 1..Len(block.attrs) |-> block.attrs[k].name]
    /\ result.AttrTypes = [k \in 1..Len(block.attrs) |-> block.attrs[k].type]
    /\ result.Matches = [m \in 1..Len(block.matches) |->
                            [DocId |-> block.matches[m].id, Weight |-> block.matches[m].weight,
                             AttrValues |-> block.matches[m].vals]]
    /\ result.Total = block.total
    /\ result.TotalFound = block.found
    /\ result.Msecs = block.msecs
    /\ result.Words = [w \in 1..Len(block.words) |->
                          [Word |-> block.words[w].word, Docs |-> block.words[w].docs,
                           Hits |-> block.words[w].hits]]

\* the result of a query the daemon answered with `block`
ScopedResult(result, block) ==
    /\ result.Status = block.status
    /\ (result.Error # NIL) <=> (result.Status \notin {SEARCHD_OK, SEARCHD_WARNING})
    /\ IF block.status \in {SEARCHD_ERROR, SEARCHD_RETRY}
         THEN /\ result.Error = ErrD("", block.msg)
              /\ result.Fields = <<>>
              /\ result.AttrNames = <<>>
              /\ result.AttrTypes = <<>>
              /\ result.Matches = <<>>
         ELSE DecodedFully(result, block)

\* C14: an error of the daemon is scoped to one query of the batch.  When the
\* reply is well framed, RunQueries succeeds whatever the statuses in it; a
\* result of status ERROR or RETRY carries the daemon's message as its Error
\* and has no fields, attributes or matches; every other result is decoded
\* fully at its own position; and a result has an Error exactly when its
\* status is neither OK nor WARNING.
C14_ErrorScopedToOneQuery ==
    (ret.op = "RunQueries" /\ WellFramed) =>
        /\ ~panicked
        /\ ret.err = NIL
        /\ Len(ret.results) = Len(replied)
        /\ \A i \in 1..Len(replied) : ScopedResult(ret.results[i], replied[i])

\* RunQueries has returned a RETRY result with its error in front of an OK
\* result with its match
C14_Witness ==
    /\ ret.op = "RunQueries"
    /\ WellFramed
    /\ Len(ret.results) = 2
    /\ ret.results[1].Status = SEARCHD_RETRY
    /\ ret.results[1].Error # NIL
    /\ ret.results[2].Status = SEARCHD_OK
    /\ Len(ret.results[2].Matches) = 1
    /\ ret.results[2].Fields = <<StrTitle>>

\* the variant of a value of an attribute of type t
VariantOf(t) ==
    IF t = SPH_ATTR_BIGINT THEN "uint64"
    ELSE IF t = SPH_ATTR_FLOAT THEN "float32"
    ELSE IF t = SPH_ATTR_STRING THEN "string"
    ELSE IF t = SPH_ATTR_MULTI THEN "[]uint32"
    ELSE IF t = SPH_ATTR_MULTI64 THEN "[]uint64"
    ELSE "uint32"

\* names, types and the values of every match line up
Aligned(result) ==
    /\ Len(result.AttrNames) = Len(result.AttrTypes)
    /\ \A m \in 1..Len(result.Matches) :
         /\ Len(result.Matches[m].AttrValues) = Len(result.AttrTypes)
         /\ \A k \in 1..Len(result.AttrTypes) :
              result.Matches[m].AttrValues[k].kind = VariantOf(result.AttrTypes[k])

\* C15: in every result RunQueries returns there are as many attribute names
\* as attribute types, every match has exactly that many attribute values,
\* and value i is of the variant type i dictates: BIGINT uint64, FLOAT
\* float32, STRING string, MULTI a sequence of uint32, MULTI64 a sequence of
\* uint64, any other type uint32.
C15_IndexAlignment ==
    (ret.op = "RunQueries" /\ ret.err = NIL /\ ~panicked) =>
        \A i \in 1..Len(ret.results) : Aligned(ret.results[i])

\* RunQueries has returned a result with six attributes, one of each variant,
\* and two matches, behind a result with an error
C15_Witness ==
    /\ ret.op = "RunQueries"
    /\ ret.err = NIL
    /\ Len(ret.results) = 2
    /\ ret.results[1].Error # NIL
    /\ Len(ret.results[2].AttrTypes) = 6
    /\ Len(ret.results[2].Matches) = 2
    /\ {ret.results[2].Matches[2].AttrValues[k].kind : k \in 1..6}
          = {"uint32", "uint64", "float32", "string", "[]uint32", "[]uint64"}

\* `got` is the n/2 lower words of the n words `words`, which are pairs of a
\* high word and a low word in the byte order of the protocol (big-endian)
LowerWords(got, words) ==
    /\ Len(got) = Len(words) \div 2
    /\ \A j \in 1..Len(got) : got[j] = words[2 * j]

\* C16: a MULTI64 attribute whose transmitted count is n decodes to n/2
\* values, one per consecutive pair of 32-bit words, each equal to the lower
\* word of its pair, the other word being discarded: {lo = 7, hi = 99}
\* decodes to 7.
C16_Multi64LowerWord ==
    (ret.op = "RunQueries" /\ WellFramed /\ ret.err = NIL /\ ~panicked) =>
        \A i \in 1..Len(ret.results) :
            \A m \in 1..Len(ret.results[i].Matches) :
                \A k \in 1..Len(ret.results[i].AttrTypes) :
                    (ret.results[i].AttrTypes[k] = SPH_ATTR_MULTI64) =>
                        LowerWords(ret.results[i].Matches[m].AttrValues[k].val,
                                   replied[i].matches[m].vals[k].val)

\* the values of an override are not all of the kind its declared type takes
KindMismatch(ov) ==
    \E n \in 1..Len(ov.values) :
        ov.values[n][2].kind # (IF ov.attrType = SPH_ATTR_INTEGER THEN "int"
                                ELSE IF ov.attrType = SPH_ATTR_FLOAT THEN "float32"
                                ELSE IF ov.attrType = SPH_ATTR_BIGINT THEN "uint64"
                                ELSE "none")

NotConnected == Err("Close > Not connected!")

\* the network calls of connect() when it runs whole
FullHandshake == <<"dial", "setdeadline", "readver", "writever", "cleardeadline">>

\* the calls `calls` contain the call `name`
Called(calls, name) == \E k \in 1..Len(calls) : calls[k] = name

\* C18: Close on a client without a connection returns 'not connected' and
\* changes nothing.  A Close that succeeds resets the handle to unconnected:
\* a second Close fails with 'not connected', and the next command that
\* uses the network starts with a dial and does not write its request
\* before a fresh handshake has run whole on the new socket.
C18_CloseResetsHandle ==
    [][/\ (ret'.op = "Close" /\ sc.conn = NoConn) =>
            (ret'.err = NotConnected /\ sc' = sc /\ sock' = sock /\ io' = <<>>)
       /\ (ret'.op = "Close" /\ ret'.err = NIL) => (sc.conn # NoConn /\ sc'.conn = NoConn)
       /\ (ret.op = "Close" /\ ret.err = NIL /\ ret'.op = "Close") => ret'.err = NotConnected
       /\ (ret.op = "Close" /\ ret.err = NIL /\ ret'.op \in Commands /\ io' # <<>>) =>
            /\ io'[1] = "dial"
            /\ Called(io', "write") =>
                  /\ SubSeq(io', 1, 5) = FullHandshake
                  /\ sock'.verRead = 1
                  /\ sock'.verWritten = 1]_vars

\* Close has succeeded on a client that held a handshaken connection and has
\* a request pending: the handle is reset and the socket gone
C18_Witness ==
    /\ ret.op = "Close"
    /\ ret.err = NIL
    /\ io = <<"close">>
    /\ sc.conn = NoConn
    /\ sock = NoSock
    /\ Len(sc.reqs) = 1

\* command Persist, version 0, length 4, body 1
PersistFrame == <<0, 4, 0, 0, 0, 0, 0, 4, 0, 0, 0, 1>>

\* C19: Open connects, with a dial and a handshake only when the client holds
\* no connection, and then writes exactly one frame, the Persist command with
\* the 4-byte body 1, and reads no reply; after an Open that succeeded the
\* client holds the connection, and the next command uses it without a dial
\* or a handshake.
C19_OpenPersist ==
    [][/\ (ret'.op = "Open") =>
            /\ (sc.conn # NoConn) => (\A k \in 1..Len(io') : io'[k] \notin Handshake)
            /\ (sc.conn = NoConn) => (io' # <<>> /\ io'[1] = "dial")
            /\ ~Called(io', "readheader") /\ ~Called(io', "readbody")
            /\ (ret'.err = NIL) =>
                  /\ sent' = <<PersistFrame>>
                  /\ io' \in {<<"write">>, FullHandshake \o <<"write">>}
                  /\ sc'.conn # NoConn
            /\ (ret'.err # NIL) => sent' = <<>>
       /\ (ret.op = "Open" /\ ret.err = NIL /\ ret'.op \in Commands) =>
            /\ \A k \in 1..Len(io') : io'[k] \notin Handshake
            /\ sock'.verRead = sock.verRead
            /\ sock'.verWritten = sock.verWritten]_vars

\* Open has dialled, handshaken and written the Persist frame
C19_Witness ==
    /\ ret.op = "Open"
    /\ ret.err = NIL
    /\ io = FullHandshake \o <<"write">>
    /\ sent = <<PersistFrame>>
    /\ sock.verWritten = 1

\* C20: the handshake reads the server version before it writes anything; if
\* the version is below 1, connect fails and the client version is not
\* written; on success the client version written is major version 1 and the
\* deadline is cleared after it, so that after every connect that succeeds
\* (every command that gets as far as writing its request) the connection
\* has no deadline set.
C20_HandshakeThenNoDeadline ==
    [][(ret'.op \in Commands) =>
          /\ \A k \in 1..Len(io') :
                (io'[k] \in {"writever", "write"} /\ io'[1] = "dial") =>
                    \E j \in 1..(k - 1) : io'[j] = "readver"
          /\ (io' # <<>> /\ io'[1] = "dial" /\ sock'.verRead = 1 /\ ~sock'.accepted) =>
                (ret'.err # NIL /\ ~Called(io', "writever") /\ sock'.verWritten = 0)
          /\ Called(io', "cleardeadline") =>
                /\ SubSeq(io', 1, 5) = FullHandshake
                /\ sock'.hello = <<0, 0, 0, 1>>
          /\ Called(io', "write") => ~sock'.deadline]_vars

\* the commands that send a request and read its answer
Requests ==
    {"RunQueries", "Query", "BuildExcerpts", "UpdateAttributes", "BuildKeywords", "Status",
     "FlushAttributes"}

\* the command code of the first frame of `frames`
CommandOf(frames) == BigEndian(frames[1], 0, 2)

\* C21: a call of RunQueries, Query, BuildExcerpts, UpdateAttributes,
\* BuildKeywords, Status or FlushAttributes writes its request to the socket at
\* most once, whatever RetryCount and RetryDelay are and whether the call
\* succeeds or fails: there is at most one write and at most one frame, and
\* the frame carries the code of the command called.
C21_NoClientRetry ==
    [][(ret'.op \in Requests) =>
          /\ Cardinality({k \in 1..Len(io') : io'[k] = "write"}) <= 1
          /\ Len(sent') <= 1
          /\ (sent' # <<>>) =>
                CommandOf(sent') =
                    CASE ret'.op \in {"RunQueries", "Query"} -> 0
                      [] ret'.op = "BuildExcerpts" -> 1
                      [] ret'.op = "UpdateAttributes" -> 2
                      [] ret'.op = "BuildKeywords" -> 3
                      [] ret'.op = "Status" -> 5
                      [] ret'.op = "FlushAttributes" -> 7]_vars

\* a command has failed after its request went out, on a client told to retry
\* twice: the request was written once
C21_Witness ==
    /\ opts.RetryCount = 2
    /\ opts.RetryDelay = 3
    /\ ret.op = "BuildExcerpts"
    /\ ret.err # NIL
    /\ Len(sent) = 1
    /\ io[Len(io)] = "readheader"

\* the arguments <<docs, index, words, PassageBoundary>> BuildExcerpts must reject
ExcerptsInvalid(a) ==
    \/ a[1] = <<>>
    \/ a[2] = NIL
    \/ a[3] = NIL
    \/ a[4] \notin {NIL, StrSentence, StrParagraph, StrZone}

\* C22: BuildExcerpts called with no documents, an empty index, empty words or
\* a PassageBoundary other than "", "sentence", "paragraph", "zone" returns an
\* error and touches neither the network nor the socket; a call that succeeds
\* returns one excerpt per document, the i-th being the daemon's excerpt of
\* the i-th document.
C22_ExcerptsPerDocument ==
    [][(ret'.op = "BuildExcerpts") =>
          /\ ExcerptsInvalid(args') =>
                /\ ret'.err # NIL
                /\ ret'.results = NIL
                /\ io' = <<>>
                /\ sent' = <<>>
                /\ sock' = sock
                /\ ~panicked'
          /\ (ret'.err = NIL /\ ~panicked') =>
                /\ ~ExcerptsInvalid(args')
                /\ Len(ret'.results) = Len(args'[1])
                /\ \A k \in 1..Len(args'[1]) : ret'.results[k] = Excerpt(args'[1][k])]_vars

\* three documents, the second empty, have come back as three excerpts
C22_Witness ==
    /\ ret.op = "BuildExcerpts"
    /\ ret.err = NIL
    /\ ~panicked
    /\ args[4] = StrZone
    /\ Len(ret.results) = 3
    /\ ret.results[2] = StrB
    /\ ret.results[3] = StrB \o StrTest

\* the arguments <<index, attrs, values>> UpdateAttributes must reject: the
\* mode is []int when the second element of the first row is one, else int
UpdateInvalid(a) ==
    \/ a[1] = NIL
    \/ a[2] = <<>>
    \/ a[3] = <<>>
    \/ \E k \in 1..Len(a[3]) : Len(a[3][k]) # Len(a[2]) + 1
    \/ \E k \in 1..Len(a[3]) : a[3][k][1].kind # "uint64"
    \/ \E k \in 1..Len(a[3]) : \E j \in 2..Len(a[3][k]) :
          a[3][k][j].kind # (IF a[3][1][2].kind = "[]int" THEN "[]int" ELSE "int")

\* C23: UpdateAttributes called with an empty index, no attributes, no rows, a
\* row whose length is not len(attrs) + 1, a row whose first element is not a
\* uint64, or an element whose shape is not that of the mode (int or []int,
\* after the second element of the first row) returns -1 and an error and
\* writes nothing: no network call is made and the socket is untouched.
C23_UpdateRejectsInvalid ==
    [][(ret'.op = "UpdateAttributes" /\ UpdateInvalid(args')) =>
          /\ ret'.i = -1
          /\ ret'.err # NIL
          /\ io' = <<>>
          /\ sent' = <<>>
          /\ sock' = sock
          /\ ~panicked']_vars

\* a connected client was given a []int in a row of int mode: rejected, nothing written
C23_Witness ==
    /\ ret.op = "UpdateAttributes"
    /\ ret.err # NIL
    /\ ret.i = -1
    /\ io = <<>>
    /\ sc.conn # NoConn
    /\ Len(args[3]) = 2
    /\ args[3][1][2].kind = "int"
    /\ args[3][2][2].kind = "[]int"

\* the text of the warning at the head of the body b
WarningText(b) == Slice(b, 4, 4 + BigEndian(b, 0, 4))

\* C24: warnings are not errors.  A search whose response has the envelope
\* status WARNING, the warning text and then the daemon's answer succeeds on
\* that answer, and GetLastWarning() then returns the text.  A result of a
\* batch whose own status is WARNING has no Error, has the daemon's text as
\* its Warning and holds everything else of the daemon's answer.
C24_WarningsAreNotErrors ==
    [][/\ (/\ ret'.op \in {"RunQueries", "Query"}
           /\ envelope' = SEARCHD_WARNING
           /\ race' = race
           /\ response' = writeLenStrToBytes(<<>>, WarningText(response'))
                              \o WireReply(<<>>, replied')) =>
            /\ ret'.err = NIL
            /\ ~panicked'
            /\ Len(ret'.results) = Len(replied')
            /\ \A k \in 1..Len(replied') : DecodedFully(ret'.results[k], replied'[k])
            /\ GetLastWarning(sc') = WarningText(response')
       /\ (ret'.op = "RunQueries" /\ ret'.err = NIL /\ ~panicked') =>
            \A k \in 1..Len(replied') :
                (replied'[k].status = SEARCHD_WARNING) =>
                    /\ ret'.results[k].Error = NIL
                    /\ ret'.results[k].Warning = replied'[k].msg
                    /\ DecodedFully(ret'.results[k], replied'[k])]_vars

\* the requests AddQuery accepted that are no longer queued and never went out
Lost ==
    {req \in race.acked :
        req \notin race.framed /\ \A k \in 1..Len(sc.reqs) : sc.reqs[k] # req}

\* both callers hold a response that answers the other caller's frame
Crossed == \A p \in Callers : race.pc[p] = "read" /\ race.got[p].to \notin {p, ""}

\* C25: one client used by two callers without synchronisation is not safe.
\* The frame a caller writes holds the requests that were queued when it built
\* the frame, not those queued since; the last statement of its RunQueries
\* empties the queue whatever it holds by then, so a request queued in between
\* is dropped unsent; and a caller reads the oldest unread response on the
\* socket, whichever caller's frame it answers.
C25_UnsynchronisedUse ==
    [][\A p \in Callers :
          /\ (race.pc[p] = "built" /\ race'.pc[p] = "written")
                => /\ sent' = <<Frame(SEARCHD_COMMAND_SEARCH, VER_COMMAND_SEARCH,
                                      AllReqs(race.snap[p]))>>
                   /\ race'.framed = race.framed
                                        \cup {race.snap[p][k] : k \in 1..Len(race.snap[p])}
                   /\ sc'.reqs = sc.reqs
          /\ (race.pc[p] = "written" /\ race'.pc[p] = "read")
                => /\ race'.got[p] = Head(race.stream)
                   /\ response' = Head(race.stream).body
          /\ (race.pc[p] = "read" /\ race'.pc[p] = "idle" /\ ~panicked')
                => /\ sc'.reqs = <<>>
                   /\ Lost' = Lost \cup ({sc.reqs[k] : k \in 1..Len(sc.reqs)} \ race.framed)]_vars

\* a request was dropped unsent, and each caller has read the other's response
C25_Witness == Lost # {} /\ Crossed

\* C26: SetServer("", 0) means "use the default value": when it returns, on
\* whichever client and whatever SetServer calls were made before, the host is
\* "localhost" and the port is 9312.
C26_SetServerDefaults ==
    [][(ret'.op \in {"SetServer", "peer.SetServer"} /\ args' = <<NIL, 0>>)
          => (opts'.Host = StrLocalhost /\ opts'.Port = 9312)]_vars

RECURSIVE Escaped(_)
RECURSIVE BareQuote(_, _)
RECURSIVE Decimal(_, _)

\* the letter that follows the backslash for each byte that is escaped
EscLetter(b) ==
    CASE b = 0 -> 48 [] b = 10 -> 110 [] b = 13 -> 114 [] b = 92 -> 92 [] b = 39 -> 39
      [] b = 34 -> 34 [] b = 26 -> 90

\* txt byte by byte: a backslash and a letter for the seven bytes, the byte
\* itself for any other
Escaped(txt) ==
    IF txt = <<>> THEN <<>>
    ELSE (IF Head(txt) \in EscBytes THEN <<92, EscLetter(Head(txt))>> ELSE <<Head(txt)>>)
             \o Escaped(Tail(txt))

\* reading lit from byte i on, a backslash taking the byte after it: a single
\* quote is met that no backslash took, or a backslash is the last byte
BareQuote(lit, i) ==
    IF i > Len(lit) THEN FALSE
    ELSE IF lit[i] = 92 THEN i + 1 > Len(lit) \/ BareQuote(lit, i + 2)
    ELSE lit[i] = 39 \/ BareQuote(lit, i + 1)

\* the number the decimal digits of str spell after acc, -1 if a byte is no digit
Decimal(str, acc) ==
    IF str = <<>> THEN acc
    ELSE IF Head(str) \notin 48..57 THEN -1
    ELSE Decimal(Tail(str), (10 * acc) + (Head(str) - 48))

\* str is the decimal text of n: a minus sign when n < 0, then the digits of
\* |n| with no leading zero
DecimalOf(str, n) ==
    /\ str # <<>>
    /\ IF n < 0
         THEN Head(str) = 45 /\ Len(str) > 1 /\ str[2] # 48 /\ Decimal(Tail(str), 0) = -n
         ELSE (Len(str) = 1 \/ Head(str) # 48) /\ Decimal(str, 0) = n

\* C27: escapeString puts a backslash and a letter (0 n r \ ' " Z) for NUL,
\* newline, carriage return, backslash, single quote, double quote and Ctrl-Z
\* and copies every other byte unchanged and in order; the literal of QuoteStr
\* is that text between two single quotes and has no unescaped single quote
\* inside; GetValQuoteStr gives Y or N for a boolean and the decimal text of
\* an integer.
C27_EscapeAndQuote ==
    /\ ret.op = "escapeString" => response = Escaped(args[1].v)
    /\ ret.op = "QuoteStr"
          => /\ response = <<39>> \o Escaped(args[1].v) \o <<39>>
             /\ ~BareQuote(SubSeq(response, 2, Len(response) - 1), 1)
    /\ (ret.op = "GetValQuoteStr" /\ args[1].kind = "bool")
          => (ret.err = NIL /\ response = IF args[1].v THEN <<89>> ELSE <<78>>)
    /\ (ret.op = "GetValQuoteStr" /\ args[1].kind \in {"int", "uint"})
          => (ret.err = NIL /\ DecimalOf(response, args[1].v))
    /\ (ret.op = "GetValQuoteStr" /\ args[1].kind = "string")
          => (ret.err = NIL /\ ~BareQuote(SubSeq(response, 2, Len(response) - 1), 1))

\* a text with a single quote and a rune of two bytes was quoted
C27_Witness ==
    /\ ret.op = "QuoteStr"
    /\ args[1].v = <<39, 195, 169>>
    /\ response = <<39, 92, 39, 195, 169, 39>>

\* obj is a single id <= 0, a list holding an id <= 0, an empty list, or
\* neither an int nor a []int
DeleteInvalid(obj) ==
    \/ obj.kind = "int" /\ obj.v <= 0
    \/ obj.kind = "[]int" /\ (obj.v = <<>> \/ \E k \in 1..Len(obj.v) : obj.v[k] <= 0)
    \/ obj.kind \notin {"int", "[]int"}

\* C28: Delete returns an error and executes no statement when its argument is
\* a single id <= 0, a list holding an id <= 0, an empty list, or neither an
\* int nor a []int; every such failure returns the same count, -1.
C28_DeleteRejectsInvalid ==
    (ret.op = "Delete" /\ DeleteInvalid(args[1]))
        => (ret.err # NIL /\ ret.i = -1 /\ sent = <<>> /\ io = <<>>)

\* Delete has refused a list with a zero after a valid id, with a database
\* that would have run the statement
C28_Witness ==
    /\ ret.op = "Delete"
    /\ args[1] = [kind |-> "[]int", v |-> <<4, 0>>]
    /\ args[2].fail = "none"
    /\ opts.Index = StrRt
    /\ ret.i = -1

\* the calls that change the configuration
ConfigCalls == {"SetFilterRange", "SetGroupBy", "ResetFilters", "ResetGroupBy"}

\* the frame of a batch of the requests reqs
BatchOf(reqs) ==
    Frame(SEARCHD_COMMAND_SEARCH, VER_COMMAND_SEARCH,
          <<0, 0, 0, 0>> \o writeInt32ToBytes(<<>>, Len(reqs)) \o RequestsInOrder(reqs))

\* C29: AddQuery takes a snapshot of the configuration.  No setter call, no
\* ResetFilters and no ResetGroupBy changes a byte of a queued request, so
\* each queued request stays as it was encoded when its AddQuery ran, and
\* RunQueries sends exactly those bytes.
C29_AddQuerySnapshots ==
    [][/\ ret'.op \in ConfigCalls => sc'.reqs = sc.reqs
       /\ (Len(sc.reqs) = Len(added) /\ \A k \in 1..Len(added) : sc.reqs[k] = added[k].req)
            => /\ Len(sc'.reqs) = Len(added')
               /\ \A k \in 1..Len(added') : sc'.reqs[k] = added'[k].req
       /\ (ret'.op = "RunQueries" /\ sent' # <<>>)
            => sent'[Len(sent')] = BatchOf(added)]_vars

\* a reset has returned with a request queued that the configuration of now
\* would encode otherwise
C29_Witness ==
    /\ ret.op \in {"ResetFilters", "ResetGroupBy"}
    /\ sc.err = NIL
    /\ Len(sc.reqs) = MaxQueue
    /\ sc.reqs[1] = added[1].req
    /\ sc.reqs[1] # EncodeQuery(opts, sc, added[1].q, StrIndex, NIL)

\* every stored weight of the map is at least 1
WeightsPositive(weights) == \A k \in 1..Len(weights) : weights[k][2] >= 1

\* the filter is well formed for its type
FilterWellFormed(f) ==
    /\ f.filterType = SPH_FILTER_VALUES => f.values # <<>>
    /\ f.filterType = SPH_FILTER_RANGE => f.umin <= f.umax
    /\ f.filterType = SPH_FILTER_FLOATRANGE => FloatLessEq(f.fmin, f.fmax)

\* C30: in every state reached from a default client by setter calls, Limit
\* and MaxMatches are positive, Offset and Cutoff are not negative, MinId is
\* at most MaxId, every field weight and index weight is at least 1, every
\* range filter has umin <= umax, every float-range filter has fmin <= fmax,
\* and every values filter has at least one value.
C30_ConfigurationInvariants ==
    /\ opts.Limit > 0
    /\ opts.MaxMatches > 0
    /\ opts.Offset >= 0
    /\ opts.Cutoff >= 0
    /\ opts.MinId <= opts.MaxId
    /\ WeightsPositive(sc.fieldWeights)
    /\ WeightsPositive(sc.indexWeights)
    /\ \A k \in 1..Len(sc.filters) : FilterWellFormed(sc.filters[k])

RECURSIVE SkipInts(_, _)
RECURSIVE ReadValues(_, _)
RECURSIVE ReadFilters(_, _)

\* the daemon's reading of a search request.  n 32-bit integers are passed over
SkipInts(bp, n) == IF n <= 0 \/ ~bp.ok THEN bp ELSE SkipInts(bpInt32(bp).bp, n - 1)

\* the parser at the filter count: offset, limit, match mode, ranker (and its
\* expression), sort mode, sort clause, query, weights, index, the id range
AtWeights(bp) == bpString(bpString(bpInt32(bp).bp).bp).bp

AtFilterCount(req) ==
    SkipInts(bpString(SkipInts(AtWeights(IF bpInt32(SkipInts(NewParser(req), 3)).v = SPH_RANK_EXPR
                                           THEN bpString(SkipInts(NewParser(req), 4)).bp
                                           ELSE SkipInts(NewParser(req), 4)),
                                bpInt32(AtWeights(
                                          IF bpInt32(SkipInts(NewParser(req), 3)).v = SPH_RANK_EXPR
                                            THEN bpString(SkipInts(NewParser(req), 4)).bp
                                            ELSE SkipInts(NewParser(req), 4))).v + 1)).bp,
             5)

\* n 64-bit values
ReadValues(x, n) == IF n <= 0 \/ ~x.bp.ok THEN x ELSE ReadValues(thenUint64(x), n - 1)

\* what follows the type t of a filter: the values, or the two bounds
ReadPayload(bp, t) ==
    IF t = SPH_FILTER_VALUES THEN ReadValues(Start(bpInt32(bp).bp), bpInt32(bp).v)
    ELSE IF t = SPH_FILTER_RANGE THEN thenUint64(thenUint64(Start(bp)))
    ELSE Pushed(<<bpFloat32(bp).v>>, bpFloat32(bpFloat32(bp).bp))

\* one filter after its name a and type t: the payload and the exclude flag
ReadFilterOf(a, t) ==
    [bp |-> bpInt32(ReadPayload(t.bp, t.v).bp).bp,
     v |-> [attr |-> a.v, filterType |-> t.v, payload |-> ReadPayload(t.bp, t.v).v,
            exclude |-> bpInt32(ReadPayload(t.bp, t.v).bp).v]]

ReadFilter(bp) == ReadFilterOf(bpString(bp), bpInt32(bpString(bp).bp))

ReadFilters(x, n) == IF n <= 0 \/ ~x.bp.ok THEN x ELSE ReadFilters(Pushed(x.v, ReadFilter(x.bp)), n - 1)

\* the filters of the request, in the order they are in it
FiltersRead(req) == ReadFilters(Start(bpInt32(AtFilterCount(req)).bp), bpInt32(AtFilterCount(req)).v)

\* the parser at the anchor flag: group function, group-by, max matches, group
\* sort, cutoff, retry count, retry delay, group distinct
AtAnchor(bp) ==
    bpString(SkipInts(bpString(bpInt32(bpString(bpInt32(bp).bp).bp).bp).bp, 3)).bp

\* the anchor of the request: the flag and what follows it when the flag is 1
AnchorRead(req) ==
    IF bpInt32(AtAnchor(FiltersRead(req).bp)).v = 1
      THEN Pushed(<<1>>, bpString(bpInt32(AtAnchor(FiltersRead(req).bp)).bp))
      ELSE Pushed(<<>>, bpInt32(AtAnchor(FiltersRead(req).bp)))

\* what the daemon is to read for the stored filter f
FilterSent(f) ==
    [attr |-> f.attr, filterType |-> f.filterType,
     payload |-> IF f.filterType = SPH_FILTER_VALUES THEN f.values
                 ELSE IF f.filterType = SPH_FILTER_RANGE THEN <<f.umin, f.umax>>
                 ELSE <<f.fmin, f.fmax>>,
     exclude |-> IF f.exclude THEN 1 ELSE 0]

FilterSetters == {"SetFilter", "SetFilterRange", "SetFilterFloatRange"}

\* C31: AddQuery encodes the number of filters and then the filters in the
\* order their setters were accepted, each with its exclude flag, and an anchor
\* flag that is 1 only when both attribute names are set; the AddQuery that
\* follows ResetFilters encodes no filter and the flag 0.
C31_FiltersAndAnchorEncoded ==
    [][/\ (ret'.op \in FilterSetters /\ args'[1] # NIL)
            => /\ Len(sc'.filters) = Len(sc.filters) + 1
               /\ SubSeq(sc'.filters, 1, Len(sc.filters)) = sc.filters
               /\ sc'.filters[Len(sc'.filters)].attr = args'[1]
               /\ sc'.filters[Len(sc'.filters)].exclude = args'[Len(args')]
       /\ (ret'.op = "AddQuery" /\ ret'.err = NIL /\ ~panicked')
            => /\ FiltersRead(sc'.reqs[Len(sc'.reqs)]).bp.ok
               /\ FiltersRead(sc'.reqs[Len(sc'.reqs)]).v
                    = [k \in 1..Len(sc.filters) |-> FilterSent(sc.filters[k])]
               /\ AnchorRead(sc'.reqs[Len(sc'.reqs)]).bp.ok
               /\ AnchorRead(sc'.reqs[Len(sc'.reqs)]).v
                    = (IF opts.LatitudeAttr # NIL /\ opts.LongitudeAttr # NIL
                         THEN <<1, opts.LatitudeAttr>> ELSE <<0>>)
       /\ (ret.op = "ResetFilters" /\ ret'.op = "AddQuery" /\ ret'.err = NIL /\ ~panicked')
            => /\ FiltersRead(sc'.reqs[Len(sc'.reqs)]).v = <<>>
               /\ AnchorRead(sc'.reqs[Len(sc'.reqs)]).v = <<0>>]_vars

\* a request with two filters of different types and the anchor is queued
C31_Witness ==
    /\ ret.op = "AddQuery"
    /\ ret.err = NIL
    /\ Len(sc.filters) = 2
    /\ sc.filters[1].filterType = SPH_FILTER_RANGE
    /\ sc.filters[2].filterType = SPH_FILTER_VALUES
    /\ opts.LatitudeAttr = StrTitle
    /\ FiltersRead(sc.reqs[1]).v = <<FilterSent(sc.filters[1]), FilterSent(sc.filters[2])>>

RECURSIVE Joined(_)
Joined(reqs) == IF reqs = <<>> THEN <<>> ELSE Head(reqs) \o Joined(Tail(reqs))

\* the frame of a search of the queue reqs
BatchOfQueue(reqs) ==
    Frame(SEARCHD_COMMAND_SEARCH, VER_COMMAND_SEARCH,
          <<0, 0, 0, 0>> \o writeInt32ToBytes(<<>>, Len(reqs)) \o Joined(reqs))

\* C32: a search that fails keeps the queue.  When RunQueries returns an error
\* after its check of the queue (the connect, the write or a read failed, the
\* header says ERROR or RETRY or an unknown status, the body length is invalid)
\* the queue is what it was.  While such a queue is held, AddQuery returns the
\* next position behind it, and the next RunQueries that writes a frame sends
\* the old requests together with the new ones, in order.
C32_FailedRunKeepsQueue ==
    [][/\ (ret'.op = "RunQueries" /\ ret'.err # NIL /\ ~NoQueries(sc.reqs))
            => (~panicked' /\ sc'.reqs = sc.reqs /\ retried' = Len(sc.reqs))
       /\ (retried > 0 /\ sc.reqs # <<>> /\ ret'.op = "AddQuery" /\ ret'.err = NIL /\ ~panicked')
            => /\ retried <= Len(sc.reqs)
               /\ ret'.i = Len(sc.reqs)
               /\ Len(sc'.reqs) = Len(sc.reqs) + 1
               /\ SubSeq(sc'.reqs, 1, Len(sc.reqs)) = sc.reqs
       /\ (retried > 0 /\ sc.reqs # <<>> /\ ret'.op = "RunQueries" /\ sent' # <<>>)
            => sent' = <<BatchOfQueue(sc.reqs)>>]_vars

\* a search of two requests succeeded, and the first of them had been sent by
\* a search that failed
C32_Witness ==
    /\ ret.op = "RunQueries"
    /\ ret.err = NIL
    /\ ~panicked
    /\ retried = 1
    /\ pending = 2
    /\ Len(ret.results) = 2
    /\ sc.reqs = <<>>

\* the setters that validate their arguments
ValidatingSetters ==
    {"SetRetries", "SetConnectTimeout", "SetLimits", "SetMaxQueryTime", "SetOverride",
     "SetSelect", "SetMatchMode", "SetRankingMode", "SetSortMode", "SetFieldWeights",
     "SetIndexWeights", "SetIDRange", "SetFilter", "SetFilterRange", "SetFilterFloatRange",
     "SetGeoAnchor", "SetGroupBy", "SetGroupDistinct"}

\* C33: a rejected setter changes nothing.  A call of a validating setter that
\* records a configuration error leaves every query setting, every filter and
\* every override as it was: only the recorded error differs.
C33_RejectedSetterChangesNothing ==
    [][(ret'.op \in ValidatingSetters /\ sc'.err # sc.err)
          => /\ ~panicked'
             /\ opts' = opts
             /\ sc' = [sc EXCEPT !.err = sc'.err]]_vars

\* the limits the daemon reads from a request: offset and limit lead it, max
\* matches and cutoff follow the filters (group function, group-by, max
\* matches, group sort, cutoff)
LimitsRead(req) ==
    <<bpInt32(NewParser(req)).v,
      bpInt32(bpInt32(NewParser(req)).bp).v,
      bpInt32(bpString(bpInt32(FiltersRead(req).bp).bp).bp).v,
      bpInt32(bpString(bpInt32(bpString(bpInt32(FiltersRead(req).bp).bp).bp).bp).bp).v>>

\* C34: SetLimits stores its arguments.  After a call of SetLimits with a
\* valid offset, limit, maxMatches and cutoff, the four settings are the four
\* arguments whatever they were before, and AddQuery encodes the settings: a
\* cutoff of 0 given after a positive cutoff makes the next request carry 0.
C34_SetLimitsStoresArguments ==
    [][/\ (/\ ret'.op = "SetLimits"
           /\ args'[1] >= 0 /\ args'[2] > 0 /\ args'[3] > 0 /\ args'[4] >= 0)
            => Limits(opts') = args'
       /\ (ret'.op = "AddQuery" /\ ret'.err = NIL /\ ~panicked')
            => LimitsRead(sc'.reqs[Len(sc'.reqs)]) = Limits(opts)]_vars

\* the parser behind the anchor of the request
AfterAnchor(req) ==
    IF AnchorRead(req).v # <<>> /\ AnchorRead(req).v[1] = 1
      THEN SkipInts(bpString(AnchorRead(req).bp).bp, 2)
      ELSE AnchorRead(req).bp

\* n pairs of a name and a 32-bit weight are passed over
RECURSIVE SkipPairs(_, _)
SkipPairs(bp, n) ==
    IF n <= 0 \/ ~bp.ok THEN bp ELSE SkipPairs(bpInt32(bpString(bp).bp).bp, n - 1)

\* a count and that many weights are passed over
PastWeights(bp) == SkipPairs(bpInt32(bp).bp, bpInt32(bp).v)

\* the number of overrides the daemon reads from the request: it follows the
\* index weights, the maximum query time, the field weights and the comment
OverridesCount(req) ==
    bpInt32(bpString(PastWeights(bpInt32(PastWeights(AfterAnchor(req))).bp)).bp).v

\* the attribute types of the enumeration, SPH_ATTR_NONE left out
AttrTypes == (SPH_ATTR_INTEGER..SPH_ATTR_STRING) \cup {SPH_ATTR_MULTI, SPH_ATTR_MULTI64}

\* C35: SetOverride works on a new client.  Called with a name and an
\* attribute type of the enumeration it does not crash and records the
\* override, and the next AddQuery encodes one override; called with a name
\* and any other type it records a configuration error and no override.
C35_SetOverrideOnNewClient ==
    [][/\ (ret'.op = "SetOverride" /\ args'[1] # NIL /\ args'[2] \in AttrTypes)
            => /\ ~panicked'
               /\ sc'.err = sc.err
               /\ \E n \in 1..Len(sc'.overrides) :
                     /\ sc'.overrides[n].attrName = args'[1]
                     /\ sc'.overrides[n].attrType = args'[2]
       /\ (ret'.op = "SetOverride" /\ args'[1] # NIL /\ args'[2] \notin AttrTypes)
            => /\ ~panicked'
               /\ sc'.err # NIL
               /\ sc'.overrides = sc.overrides
       /\ (/\ ret.op = "SetOverride" /\ Len(sc.overrides) = 1
           /\ ret'.op = "AddQuery" /\ ret'.err = NIL /\ ~panicked')
            => OverridesCount(sc'.reqs[Len(sc'.reqs)]) = 1]_vars

\* the handshake of the socket s ran whole: the server version was read and
\* accepted and the client version was written
Handshaken(s) == s.verRead = 1 /\ s.accepted /\ s.verWritten = 1

\* C36: no command on a connection without a handshake.  Whenever Open or a
\* request writes its frame, the socket it writes to has had its handshake
\* run whole; a connect that failed after the dial leaves no socket that a
\* later call writes to without a handshake.
C36_NoCommandBeforeHandshake ==
    [][(ret'.op \in Commands /\ Called(io', "write")) => Handshaken(sock')]_vars

\* the host names a unix socket: it starts with '/' or with "unix://"
UnixHost(host) == host[1] = 47 \/ (Len(host) > 7 /\ SubSeq(host, 1, 7) = StrUnix)

\* C37: the last SetServer decides what is dialled.  When the connect of the
\* call that follows SetServer(host, port) dials, it dials TCP host:port if
\* the host is a plain name and the port is positive, whatever an earlier
\* call had configured, and it dials the unix socket of the path if the host
\* starts with '/' or with "unix://".
C37_LastSetServerDecidesDial ==
    [][(ret.op = "SetServer" /\ args[1] # NIL /\ ret'.op = "Open" /\ Called(io', "dial")
          /\ sock'.open)
          => IF UnixHost(args[1])
               THEN /\ sock'.network = "unix"
                    /\ sock'.path = (IF args[1][1] = 47 THEN args[1]
                                                        ELSE SubSeq(args[1], 8, Len(args[1])))
               ELSE args[2] > 0
                      => (sock'.network = "tcp" /\ sock'.host = args[1] /\ sock'.port = args[2])]_vars

\* the last n bytes of str
Suffix(str, n) == SubSeq(str, Len(str) - n + 1, Len(str))

\* obj is a row with an Id, and its Id
HasId(obj) == obj.kind = "struct" /\ obj.fields[1][1] = StrId

IdOf(obj) == obj.fields[1][2].v

\* the statement ends with the clause " WHERE Id=" and the decimal text of id
WhereIsId(stmt, id) ==
    \E n \in 1..(Len(stmt) - 10) :
        /\ DecimalOf(Suffix(stmt, n), id)
        /\ SubSeq(stmt, Len(stmt) - n - 9, Len(stmt) - n) = StrWhere \o StrId \o <<61>>

\* C38: Update without a WHERE clause targets the row it is given.  No
\* caller sets a WHERE clause; every statement that an Update of either
\* client hands to the database ends with the clause the Id of that call's
\* object makes, 'Id=<Id>'.
C38_UpdateTargetsItsObject ==
    [][(ret'.op \in {"Update", "peer.Update"} /\ sent' # <<>> /\ HasId(args'[1]))
          => WhereIsId(sent'[1], IdOf(args'[1]))]_vars

\* C39: a MULTI64 attribute is passed over whole.  Decoding one whose count
\* is n moves the cursor by the 4 bytes of the count and 4 bytes for each of
\* the n words, for every n, odd ones too, so that the attribute behind it is
\* read from where the daemon wrote it.
C39_Multi64Advance ==
    (ret.op = "DecodeAttrValue") =>
        /\ ~panicked
        /\ ret.i = 4 + (4 * BigEndian(args[1], 0, 4))
        /\ ret.results[2].val = BigEndian(args[1], Len(args[1]) - 4, 4)

\* C40: the flags of BuildExcerpts tell the options apart.  The flags integer
\* is odd (bit 1, remove_spaces, is always set), and no two different
\* settings of ExactPhrase, SinglePassage, UseBoundaries, WeightOrder,
\* QueryMode, ForceAllWords, LoadFiles, LoadFilesScattered, AllowEmpty and
\* EmitZones give the same integer: each option owns a bit of its own.
C40_ExcerptFlagsInjective ==
    (ret.op = "ExcerptsFlags") =>
        /\ ret.i % 2 = 1
        /\ \A eo \in FlagOpts : ExcerptsFlags(eo) = ret.i => eo = args[1]

====
